---- MODULE Spec2Model ----
(***************************************************************************)
(* Model of the sniping bot's execution path:                              *)
(*   - SnipingService (services/sniping_service.py): execute_sniping,      *)
(*     update_transaction_status and the transaction ledger;               *)
(*   - RateLimiter (services/jupiter_service.py): acquire under its lock;  *)
(*   - IPCClient (ipc_client.py): send_message, request_transaction,       *)
(*     check_security over one stream connection;                          *)
(*   - JupiterMonitor (dex_monitoring/jupiter.py): the monitoring loop,    *)
(*     analyze_pool, estimate_profit, calculate_risk_level, and the        *)
(*     opportunity list of JupiterService;                                 *)
(*   - SnipingRuleEngine (transaction_analysis/sniping_rules.py) and the   *)
(*     strategy handlers of SnipingService, with the strategies file;      *)
(*   - the response cache of JupiterService (_get_cache, _set_cache).      *)
(* Python None is the string "null"; asyncio coroutines are processes      *)
(* whose steps are the code between two suspension points (await).         *)
(***************************************************************************)
EXTENDS Integers, Sequences, FiniteSets, TLC

(* ------------------------------ bounds --------------------------------- *)
\* concurrent execute_sniping calls (HTTP requests served by one event loop)
NCalls == 2
\* records the ledger may hold before no further call is started
MaxTx == 2
\* tasks sharing one RateLimiter
NTasks == 2
\* RateLimiter(max_requests, time_window): the instance under analysis
MaxRequests == 2
TimeWindow == 1
\* the clock stops ticking here (a sleep may still carry it further)
MaxTime == 3
\* no acquire() is issued once the timestamp queue holds this many entries
MaxQueue == 3
\* coroutines calling one IPCClient handle
NCallers == 2
\* connections the handle may open
MaxConn == 1
\* requests a connection may hold unanswered before no further call is made
MaxPending == 1
\* reply documents the engine may leave unread on a connection
MaxReplies == 1
\* ticks the monitor's loops begin before no further tick is begun
MaxTicks == 2
\* records a fetch result may hold
MaxRecords == 2
\* strategies the rule engine may hold before no further one is added
MaxStrategies == 2
\* the cache's clock stops here
MaxClock == 4

(* --------------------------- value domains ----------------------------- *)
null == "null"
Tokens == {"T1"}
\* the estimated_profit of the opportunity handed to execute_sniping (the
\* JSON body of the request), read once, when the tx dict is built: a value
\* float() accepts, or none ("missing": the key is absent or no number)
EstimatedProfits == {"number", "missing"}
Signatures == {"S1", "S2"}
Statuses == {"pending", "completed", "failed"}
Terminal == {"completed", "failed"}
Calls == 1..NCalls
Tasks == 1..NTasks
Callers == 1..NCallers
Conns == 1..MaxConn
\* the task in which JupiterService.start() awaits monitor.start(), which
\* runs monitor_new_pools inline; it is task 1 of the limiter
Loops == {1}
\* the tasks that may call monitor.start(): that one, and a second caller
\* of start() after a stop(); each runs monitor_new_pools inline
Starters == {1, 2}

\* the task calling the JupiterService handlers (get_opportunities); the
\* loop of the monitor is the limiter's task 1
ApiTask == NTasks

\* pool ids and the metrics the diff looks at (price_usd, liquidity_usd)
PoolIds == {"A", "B"}
Prices == {1, 2}
Liquidities == {1, 2}
\* JupiterMonitor.min_liquidity_usd (1000 USD): liquidity 1 stands for a
\* pool below it (500), liquidity 2 for one above it (2000)
min_liquidity_usd == 2

\* a record of the fetch result: pool A at three (price, liquidity) values,
\* pool B at two; pool["id"] may be missing (id = null), and so may
\* pool["token_address"]
Records ==
    {[id |-> "A", has_token |-> TRUE, price |-> m[1], liquidity |-> m[2]] :
        m \in {<<1, 1>>, <<2, 1>>, <<1, 2>>}}
    \cup {[id |-> "B", has_token |-> TRUE, price |-> 1, liquidity |-> q] :
        q \in Liquidities}
    \cup {[id |-> null, has_token |-> TRUE, price |-> 1, liquidity |-> 1],
          [id |-> "A", has_token |-> FALSE, price |-> 1, liquidity |-> 1]}

\* no record: a pool id that is not in pools_cache, a loop between records
NoRecord == [id |-> null, has_token |-> FALSE, price |-> 0, liquidity |-> 0]

\* timedelta(hours=24), in clock steps of the model (one step is 12 hours
\* where the 24-hour windows are concerned)
Retention == 2

\* ipc_client.MessageType values
MessageTypes == {"transaction_request", "transaction_response",
                 "security_check", "security_response"}

\* the data object of an envelope: a key that is missing reads as "absent"
\* (is_safe) or as null (reason, signature: dict.get without default)
EmptyData == [is_safe |-> "absent", reason |-> null, signature |-> null]

\* what send_message returns when the read yields no bytes (return None)
NoResponse == [type |-> "none", data |-> EmptyData]

\* IPCMessage values send_message can hand back to the two call contracts
Envelopes ==
    {[type |-> "security_response",
      data |-> [is_safe |-> s, reason |-> r, signature |-> null]] :
         s \in {"true", "false", "absent"}, r \in {null, "blacklisted"}}
    \cup
    {[type |-> "transaction_response",
      data |-> [is_safe |-> "absent", reason |-> null, signature |-> g]] :
         g \in Signatures \cup {null}}
    \cup
    {[type |-> t, data |-> EmptyData] :
         t \in {"transaction_request", "security_check"}}

SendResults == Envelopes \cup {NoResponse}

(* ---------------------- IPCClient call contracts ----------------------- *)
\* request_transaction, after send_message returned `response`
request_transaction_result(response) ==
    IF response # NoResponse /\ response.type = "transaction_response"
    THEN response.data.signature
    ELSE null

\* a plausible slip: a reply of any type is trusted, default verdict safe
check_security_trusting(response) ==
    IF response # NoResponse
    THEN [is_safe |-> response.data.is_safe # "false",
          reason |-> response.data.reason]
    ELSE [is_safe |-> FALSE, reason |-> "no_response"]

\* check_security, after send_message returned `response`
check_security_result(response) ==
    IF response # NoResponse /\ response.type = "security_response"
    THEN [is_safe |-> response.data.is_safe = "true",
          reason |-> response.data.reason]
    ELSE [is_safe |-> FALSE, reason |-> "no_response"]

(* ------------------------------ state ---------------------------------- *)
VARIABLES
    transactions,   \* SnipingService.transactions: the full history
    active_orders,  \* SnipingService.active_orders: references (indices) to
                    \* the dicts of transactions that are still listed active
    spc,            \* per execute_sniping call: where the coroutine is
    opportunity,    \* per call: the opportunity's token_address
    security,       \* per call: (is_safe, reason) check_security returned
    requested,      \* per call: request_transaction has been invoked
    appended,       \* per call: records this call appended to the ledger
    result,         \* per call: the dict execute_sniping returned
    now,            \* time.time()
    requests,       \* RateLimiter.requests: deque of admission timestamps
    lock_owner,     \* RateLimiter.lock: the task holding it, 0 when free
    lock_waiters,   \* RateLimiter.lock: tasks queued on it, in arrival order
    rpc,            \* per task: where its acquire() coroutine is
    depth,          \* per task: nesting of acquire() frames (the recursion)
    wake,           \* per task: when its asyncio.sleep(wait_time) is due
    writer,         \* IPCClient._writer: its connection, 0 for None
    reader,         \* IPCClient._reader: its connection, 0 for None
    nconn,          \* connections opened so far
    inbound,        \* per connection: requests written, not yet answered
    outbound,       \* per connection: reply documents sent, not yet read,
                    \* each as the caller whose request it answers
    eof,            \* per connection: the stream to the client has ended
    closed,         \* connections close() has closed
    waiter,         \* per connection: the coroutine suspended in read()
    gpc,            \* per caller: where its send_message coroutine is
    gkind,          \* per caller: the contract called
    wconn,          \* per caller: the connection its request was written on
    rconn,          \* per caller: the connection its read() is on
    gresponse,      \* per caller: what send_message returned
    answers,        \* per caller: whose request that reply answers, 0 if none
    ret,            \* per caller: what the contract returned
    outcome,        \* per caller: "returned" or "raised", "none" before
    writes,         \* per caller: writes of the current call
    reads,          \* per caller: read() calls of the current call
    is_running,     \* JupiterMonitor.is_running
    mpc,            \* per start(): where its monitor_new_pools coroutine is
    left,           \* per loop: records of the fetch result still to visit
    cur,            \* per loop: the record being analysed and notified
    opp_ts,         \* per loop: timestamp of the opportunity being notified
    pools_cache,    \* JupiterMonitor.pools_cache: pool id -> cached record
    price_history,  \* JupiterMonitor.price_history: token -> (time, price)*
    opportunities,  \* JupiterService.opportunities
    ticks,          \* ticks begun so far
    last_fetch,     \* per loop: how the fetch of its latest tick ended
    acquires,       \* per loop: acquire() calls made in the current tick
    apc,            \* where the get_opportunities coroutine is
    a_in,           \* the monitor's thresholds and the arguments of the call
                    \* of analyze_pool, estimate_profit, calculate_risk_level
    a_out,          \* what that call returned
    strategies,     \* SnipingRuleEngine.strategies, in insertion order
    e_out,          \* the latest operation on the engine and what it gave
    storage,        \* the file save_strategies writes and load_strategies reads
    cache,          \* JupiterService._cache: key -> (data, timestamp)
    ctime,          \* time.time() as the cache reads it
    c_out,          \* the latest cache operation and what it returned
    last_set,       \* per key: the latest _set_cache, kept for reference
    evicted,        \* keys whose entry a read has deleted
    errors          \* logger.error calls made by monitor_new_pools

svars == <<transactions, active_orders, spc, opportunity, security,
           requested, appended, result>>

lvars == <<now, requests, lock_owner, lock_waiters, rpc, depth, wake>>

gvars == <<writer, reader, nconn, inbound, outbound, eof, closed, waiter, gpc,
           gkind,
           wconn, rconn, gresponse, answers, ret, outcome, writes, reads>>

mvars == <<is_running, mpc, left, cur, opp_ts, pools_cache, price_history,
           opportunities, ticks, last_fetch, acquires, apc>>

avars == <<a_in, a_out>>

evars == <<strategies, e_out>>

fvars == <<storage>>

cvars == <<cache, ctime, c_out, last_set, evicted>>

logvars == <<errors>>

vars == <<svars, lvars, gvars, mvars, avars, evars, fvars, cvars, logvars>>

\* what a step of one component leaves alone
nonService == <<lvars, gvars, mvars, avars, evars, fvars, cvars, logvars>>
nonLimiter == <<svars, gvars, mvars, avars, evars, fvars, cvars, logvars>>
nonGateway == <<svars, lvars, mvars, avars, evars, fvars, cvars, logvars>>
nonMonitor == <<svars, gvars, avars, evars, fvars, cvars, logvars>>
nonAnalysis == <<svars, lvars, gvars, mvars, evars, fvars, cvars, logvars>>
nonEngine == <<svars, lvars, gvars, mvars, avars, fvars, cvars, logvars>>
nonCache == <<svars, lvars, gvars, mvars, avars, evars, fvars, logvars>>
nonEngineFile == <<svars, lvars, gvars, mvars, avars, cvars, logvars>>
nonMonitorLog == <<svars, gvars, avars, evars, fvars, cvars>>

NoSecurity == [is_safe |-> FALSE, reason |-> "unset"]
NoResult == [success |-> FALSE, signature |-> null, error |-> "unset",
             reason |-> null]

ServiceInit ==
    /\ transactions = <<>>
    /\ active_orders = <<>>
    /\ spc = [c \in Calls |-> "idle"]
    /\ opportunity = [c \in Calls |-> null]
    /\ security = [c \in Calls |-> NoSecurity]
    /\ requested = [c \in Calls |-> FALSE]
    /\ appended = [c \in Calls |-> 0]
    /\ result = [c \in Calls |-> NoResult]

(* --------------------------- SnipingService ---------------------------- *)
InFlight == Cardinality({c \in Calls : spc[c] \in {"check_security",
                                                   "request_transaction"}})

\* execute_sniping is entered: check_security is awaited
ExecuteSniping(c, token) ==
    /\ spc[c] = "idle"
    /\ Len(transactions) + InFlight < MaxTx
    /\ spc' = [spc EXCEPT ![c] = "check_security"]
    /\ opportunity' = [opportunity EXCEPT ![c] = token]
    /\ UNCHANGED <<transactions, active_orders, security, requested,
                   appended, result>>
    /\ UNCHANGED nonService

\* a plausible slip: the verdict is not examined before dispatching
MayDispatchAlways(verdict) == TRUE

\* the `if not is_safe: return` test of execute_sniping
MayDispatch(verdict) == verdict.is_safe

\* a service without the except clause: the exception leaves the call
FailedPropagating(c, kind, why) ==
    /\ spc' = [spc EXCEPT ![c] = "idle"]
    /\ UNCHANGED result

\* the except clause: the call returns a failure result
Failed(c, kind, why) ==
    /\ spc' = [spc EXCEPT ![c] = "returned"]
    /\ result' = [result EXCEPT ![c] = [success |-> FALSE, signature |-> null,
                                        error |-> kind, reason |-> why]]

\* check_security raised: the except clause of execute_sniping
CheckSecurityRaises(c) ==
    /\ spc[c] = "check_security"
    /\ Failed(c, "exception", null)
    /\ UNCHANGED <<transactions, active_orders, opportunity, security,
                   requested, appended>>
    /\ UNCHANGED nonService

\* check_security returned: unsafe ends the call, safe dispatches
CheckSecurityReturns(c, response) ==
    /\ spc[c] = "check_security"
    /\ LET verdict == check_security_result(response) IN
       /\ security' = [security EXCEPT ![c] = verdict]
       /\ IF MayDispatch(verdict)
          THEN /\ spc' = [spc EXCEPT ![c] = "request_transaction"]
               /\ requested' = [requested EXCEPT ![c] = TRUE]
               /\ UNCHANGED result
          ELSE /\ Failed(c, "security_check_failed", verdict.reason)
               /\ UNCHANGED requested
    /\ UNCHANGED <<transactions, active_orders, opportunity, appended>>
    /\ UNCHANGED nonService

\* request_transaction raised: the except clause of execute_sniping
RequestTransactionRaises(c) ==
    /\ spc[c] = "request_transaction"
    /\ Failed(c, "exception", null)
    /\ UNCHANGED <<transactions, active_orders, opportunity, security,
                   requested, appended>>
    /\ UNCHANGED nonService

\* the tx dict can be built: float(opportunity["estimated_profit"]) neither
\* raises KeyError nor TypeError/ValueError
BuildsRecord(estimated_profit) == estimated_profit = "number"

\* request_transaction returned: the tx dict is built, the record is
\* appended to both lists and the call reports success; when building the
\* dict raises, the except clause returns a failure and nothing is appended
RequestTransactionReturns(c, response, estimated_profit) ==
    /\ spc[c] = "request_transaction"
    /\ LET signature == request_transaction_result(response)
           tx == [signature |-> signature,
                  token_address |-> opportunity[c],
                  status |-> "pending"]
       IN /\ IF BuildsRecord(estimated_profit)
             THEN /\ transactions' = Append(transactions, tx)
                  /\ active_orders' =
                        Append(active_orders, Len(transactions) + 1)
                  /\ appended' = [appended EXCEPT ![c] = @ + 1]
                  /\ spc' = [spc EXCEPT ![c] = "returned"]
                  /\ result' = [result EXCEPT ![c] =
                                   [success |-> TRUE, signature |-> signature,
                                    error |-> null, reason |-> null]]
             ELSE /\ Failed(c, "exception", null)
                  /\ UNCHANGED <<transactions, active_orders, appended>>
    /\ UNCHANGED <<opportunity, security, requested>>
    /\ UNCHANGED nonService

\* the caller has taken the result; the slot serves the next call
CallDone(c) ==
    /\ spc[c] = "returned"
    /\ spc' = [spc EXCEPT ![c] = "idle"]
    /\ opportunity' = [opportunity EXCEPT ![c] = null]
    /\ security' = [security EXCEPT ![c] = NoSecurity]
    /\ requested' = [requested EXCEPT ![c] = FALSE]
    /\ appended' = [appended EXCEPT ![c] = 0]
    /\ result' = [result EXCEPT ![c] = NoResult]
    /\ UNCHANGED <<transactions, active_orders>>
    /\ UNCHANGED nonService

\* index of the first record of the history carrying the signature, 0 if none
FirstWith(signature) ==
    IF \E i \in 1..Len(transactions) : transactions[i].signature = signature
    THEN CHOOSE i \in 1..Len(transactions) :
            /\ transactions[i].signature = signature
            /\ \A j \in 1..(i - 1) : transactions[j].signature # signature
    ELSE 0

\* tx["status"] = status
StatusAfter(old, status) == status

\* update_transaction_status: the first record with the signature takes the
\* status; on a terminal status every order with that signature leaves
\* active_orders
UpdateTransactionStatus(signature, status) ==
    /\ LET i == FirstWith(signature) IN
       IF i = 0
       THEN UNCHANGED <<transactions, active_orders>>
       ELSE /\ transactions' =
                  [transactions EXCEPT ![i].status = StatusAfter(@, status)]
            /\ active_orders' =
                  IF status \in Terminal
                  THEN SelectSeq(active_orders,
                          LAMBDA k : transactions'[k].signature # signature)
                  ELSE active_orders
    /\ UNCHANGED <<spc, opportunity, security, requested, appended, result>>
    /\ UNCHANGED nonService

ServiceNext ==
    \/ \E c \in Calls, token \in Tokens : ExecuteSniping(c, token)
    \/ \E c \in Calls : CheckSecurityRaises(c)
    \/ \E c \in Calls, response \in SendResults : CheckSecurityReturns(c, response)
    \/ \E c \in Calls : RequestTransactionRaises(c)
    \/ \E c \in Calls, response \in SendResults,
          estimated_profit \in EstimatedProfits :
             RequestTransactionReturns(c, response, estimated_profit)
    \/ \E c \in Calls : CallDone(c)
    \/ \E signature \in Signatures, status \in Statuses :
          UpdateTransactionStatus(signature, status)

(* ----------------------------- RateLimiter ----------------------------- *)
LimiterInit ==
    /\ now = 0
    /\ requests = <<>>
    /\ lock_owner = 0
    /\ lock_waiters = <<>>
    /\ rpc = [t \in Tasks |-> "idle"]
    /\ depth = [t \in Tasks |-> 0]
    /\ wake = [t \in Tasks |-> 0]

Without(queue, t) == SelectSeq(queue, LAMBDA u : u # t)

\* while self.requests and now - self.requests[0] > self.time_window: popleft()
RECURSIVE Prune(_, _)
Prune(queue, time) ==
    IF queue # <<>> /\ time - Head(queue) > TimeWindow
    THEN Prune(Tail(queue), time)
    ELSE queue

\* wait_time = self.requests[0] + self.time_window - now
WaitTime(queue, time) == Head(queue) + TimeWindow - time

\* a plausible slip: the lock's state is not consulted
LockAvailableUnguarded(t) == \E i \in 1..Len(lock_waiters) : lock_waiters[i] = t

\* asyncio.Lock: granted to the longest-waiting task once it is free
LockAvailable(t) ==
    /\ lock_owner = 0
    /\ lock_waiters # <<>>
    /\ Head(lock_waiters) = t

\* the coroutine of task t reaches `async with self.lock`
Enqueue(t) ==
    /\ rpc[t] = "idle"
    /\ rpc' = [rpc EXCEPT ![t] = "wait_lock"]
    /\ lock_waiters' = Append(lock_waiters, t)
    /\ UNCHANGED <<now, requests, lock_owner, depth, wake>>

\* acquire() is called by a task of its own
AcquireCall(t) ==
    /\ Len(requests) < MaxQueue
    /\ Enqueue(t)
    /\ UNCHANGED nonLimiter

\* the lock is obtained and the body runs to its next suspension point:
\* prune, test the limit, then either sleep (the lock stays held) or append
\* the timestamp, leave the with-block and return through every frame
LockGranted(t) ==
    /\ rpc[t] = "wait_lock"
    /\ LockAvailable(t)
    /\ lock_waiters' = Without(lock_waiters, t)
    /\ LET pruned == Prune(requests, now) IN
       IF Len(pruned) >= MaxRequests /\ WaitTime(pruned, now) > 0
       THEN /\ requests' = pruned
            /\ lock_owner' = t
            /\ rpc' = [rpc EXCEPT ![t] = "sleeping"]
            /\ wake' = [wake EXCEPT ![t] = now + WaitTime(pruned, now)]
            /\ UNCHANGED depth
       ELSE /\ requests' = Append(pruned, now)
            /\ lock_owner' = 0
            /\ rpc' = [rpc EXCEPT ![t] = "idle"]
            /\ depth' = [depth EXCEPT ![t] = 0]
            /\ UNCHANGED wake
    /\ UNCHANGED now
    /\ UNCHANGED nonLimiter

\* asyncio.sleep(wait_time) is over (time has passed) and the coroutine
\* calls self.acquire() again, from inside the with-block: the new frame
\* reaches `async with self.lock`
AfterSleep(t) ==
    /\ rpc[t] = "sleeping"
    /\ now' = IF now < wake[t] THEN wake[t] ELSE now
    /\ depth' = [depth EXCEPT ![t] = @ + 1]
    /\ rpc' = [rpc EXCEPT ![t] = "wait_lock"]
    /\ lock_waiters' = Append(lock_waiters, t)
    /\ UNCHANGED <<requests, lock_owner, wake>>
    /\ UNCHANGED nonLimiter

\* time passes
Tick ==
    /\ now < MaxTime
    /\ now' = now + 1
    /\ UNCHANGED <<requests, lock_owner, lock_waiters, rpc, depth, wake>>
    /\ UNCHANGED nonLimiter

LimiterNext ==
    \/ \E t \in Tasks : AcquireCall(t)
    \/ \E t \in Tasks : LockGranted(t)
    \/ \E t \in Tasks : AfterSleep(t)
    \/ Tick

(* ------------------------------ IPCClient ------------------------------ *)
Kinds == {"request_transaction", "check_security"}

\* the MessageType of the envelope each contract sends
RequestType(k) ==
    IF k = "request_transaction" THEN "transaction_request"
    ELSE "security_check"

\* documents the engine may put on the stream: the two responses, a
\* document of a request type carrying response keys, and "bogus", a type
\* that MessageType(...) rejects in from_json. What a document holds is
\* seen by nobody before it is read, so it is drawn when the read returns.
ReplyDocs ==
    {[type |-> "security_response",
      data |-> [is_safe |-> "true", reason |-> null, signature |-> null]],
     [type |-> "security_response",
      data |-> [is_safe |-> "false", reason |-> "blacklisted",
                signature |-> null]],
     [type |-> "security_response", data |-> EmptyData],
     [type |-> "transaction_response",
      data |-> [is_safe |-> "absent", reason |-> null, signature |-> "S1"]],
     [type |-> "security_check",
      data |-> [is_safe |-> "true", reason |-> null, signature |-> "S1"]],
     [type |-> "bogus", data |-> EmptyData]}

NoRet == [signature |-> null, is_safe |-> FALSE, reason |-> "unset"]

GatewayInit ==
    /\ writer = 0
    /\ reader = 0
    /\ nconn = 0
    /\ inbound = [k \in Conns |-> <<>>]
    /\ outbound = [k \in Conns |-> <<>>]
    /\ eof = [k \in Conns |-> FALSE]
    /\ closed = {}
    /\ waiter = [k \in Conns |-> 0]
    /\ gpc = [g \in Callers |-> "idle"]
    /\ gkind = [g \in Callers |-> null]
    /\ wconn = [g \in Callers |-> 0]
    /\ rconn = [g \in Callers |-> 0]
    /\ gresponse = [g \in Callers |-> NoResponse]
    /\ answers = [g \in Callers |-> 0]
    /\ ret = [g \in Callers |-> NoRet]
    /\ outcome = [g \in Callers |-> "none"]
    /\ writes = [g \in Callers |-> 0]
    /\ reads = [g \in Callers |-> 0]

\* what the contract hands back for the reply send_message returned
ContractReturn(k, message) ==
    IF k = "request_transaction"
    THEN [signature |-> request_transaction_result(message),
          is_safe |-> FALSE, reason |-> null]
    ELSE [signature |-> null,
          is_safe |-> check_security_result(message).is_safe,
          reason |-> check_security_result(message).reason]

\* the call ends: with a value, or with an exception
End(g, how, message, whose, value) ==
    /\ gpc' = [gpc EXCEPT ![g] = "returned"]
    /\ outcome' = [outcome EXCEPT ![g] = how]
    /\ gresponse' = [gresponse EXCEPT ![g] = message]
    /\ answers' = [answers EXCEPT ![g] = whose]
    /\ ret' = [ret EXCEPT ![g] = value]
    /\ wconn' = [wconn EXCEPT ![g] = 0]
    /\ rconn' = [rconn EXCEPT ![g] = 0]

\* a gateway that starts the call over on an exception instead of raising
RaiseRetrying(g) ==
    /\ gpc' = [gpc EXCEPT ![g] = "idle"]
    /\ wconn' = [wconn EXCEPT ![g] = 0]
    /\ rconn' = [rconn EXCEPT ![g] = 0]
    /\ UNCHANGED <<outcome, gresponse, answers, ret>>

\* an exception leaves send_message (logged and re-raised) and the contract
Raise(g) == End(g, "raised", NoResponse, 0, NoRet)

\* read() has produced `docs`, everything the engine sent before closing:
\* no bytes give None, one document (holding `doc`) is parsed by from_json
\* (an unknown type raises), several documents are not one JSON document
\* (json.loads raises)
Deliver(g, k, docs, doc) ==
    IF docs = <<>>
    THEN End(g, "returned", NoResponse, 0, ContractReturn(k, NoResponse))
    ELSE IF Len(docs) = 1 /\ doc.type \in MessageTypes
    THEN End(g, "returned", doc, docs[1], ContractReturn(k, doc))
    ELSE Raise(g)

\* `await self._reader.read()` is called by a caller whose request went on
\* connection w: at end of stream it returns at once what is buffered; with
\* another coroutine already waiting on the reader it raises RuntimeError;
\* otherwise the caller waits for the end of the stream
ReadCall(g, k, doc, w) ==
    /\ reads' = [reads EXCEPT ![g] = @ + 1]
    /\ IF eof[reader']
       THEN /\ Deliver(g, k, outbound[reader'], doc)
            /\ outbound' = [outbound EXCEPT ![reader'] = <<>>]
            /\ UNCHANGED waiter
       ELSE IF waiter[reader'] # 0
       THEN /\ Raise(g)
            /\ UNCHANGED <<outbound, waiter>>
       ELSE /\ gpc' = [gpc EXCEPT ![g] = "reading"]
            /\ waiter' = [waiter EXCEPT ![reader'] = g]
            /\ wconn' = [wconn EXCEPT ![g] = w]
            /\ rconn' = [rconn EXCEPT ![g] = reader']
            /\ UNCHANGED <<outbound, gresponse, answers, ret, outcome>>

\* self._writer.write(data); await self._writer.drain(): the envelope goes
\* on the current writer's connection (nowhere once the peer has gone);
\* drain either suspends the caller (transport paused), or returns at once
\* and read() is called, or raises when the peer has gone; on a transport
\* that close() has closed the write is dropped and drain raises
WriteAndDrain(g, k, how, doc) ==
    /\ inbound' = [inbound EXCEPT ![writer'] =
                      IF eof[writer'] THEN @
                      ELSE Append(@, [from |-> g, type |-> RequestType(k)])]
    /\ writes' = [writes EXCEPT ![g] = @ + 1]
    /\ \/ /\ how = "suspend" /\ writer' \notin closed
          /\ gpc' = [gpc EXCEPT ![g] = "draining"]
          /\ wconn' = [wconn EXCEPT ![g] = writer']
          /\ UNCHANGED <<outbound, waiter, rconn, gresponse, answers, ret,
                         outcome, reads>>
       \/ /\ how = "proceed" /\ writer' \notin closed
          /\ ReadCall(g, k, doc, writer')
       \/ /\ how = "reset" /\ eof[writer']
          /\ Raise(g)
          /\ UNCHANGED <<outbound, waiter, reads>>

DrainOutcomes == {"suspend", "proceed", "reset"}

\* what the one document a read() on connection c is about to return may
\* hold (nothing to choose when it returns no document, or several)
DocChoices(c) ==
    IF c # 0 /\ eof[c] /\ Len(outbound[c]) = 1
    THEN ReplyDocs
    ELSE {NoResponse}

\* a contract is called while self._writer is None: connect() is awaited
CallConnecting(g, k) ==
    /\ gpc[g] = "idle"
    /\ writer = 0
    /\ nconn + Cardinality({h \in Callers : gpc[h] = "connecting"}) < MaxConn
    /\ gkind' = [gkind EXCEPT ![g] = k]
    /\ gpc' = [gpc EXCEPT ![g] = "connecting"]
    /\ UNCHANGED <<writer, reader, nconn, inbound, outbound, eof, waiter,
                   wconn, rconn, gresponse, answers, ret, outcome, writes,
                   reads>>
    /\ UNCHANGED closed
    /\ UNCHANGED nonGateway

\* a contract is called while a writer is set: the request is written on it
CallWriting(g, k, how, doc) ==
    /\ gpc[g] = "idle"
    /\ writer # 0
    /\ Len(inbound[writer]) < MaxPending
    /\ gkind' = [gkind EXCEPT ![g] = k]
    /\ UNCHANGED <<writer, reader, nconn, eof>>
    /\ WriteAndDrain(g, k, how, doc)
    /\ UNCHANGED closed
    /\ UNCHANGED nonGateway

\* open_unix_connection returned: reader and writer are replaced by the new
\* connection's, and the request is written on it
ConnectDone(g, how) ==
    /\ gpc[g] = "connecting"
    /\ nconn < MaxConn
    /\ nconn' = nconn + 1
    /\ writer' = nconn + 1
    /\ reader' = nconn + 1
    /\ UNCHANGED <<eof, gkind>>
    /\ WriteAndDrain(g, gkind[g], how, NoResponse)
    /\ UNCHANGED closed
    /\ UNCHANGED nonGateway

\* open_unix_connection raised: connect() logs and re-raises
ConnectFails(g) ==
    /\ gpc[g] = "connecting"
    /\ Raise(g)
    /\ UNCHANGED <<writer, reader, nconn, inbound, outbound, eof, waiter,
                   gkind, writes, reads>>
    /\ UNCHANGED closed
    /\ UNCHANGED nonGateway

\* drain() resumes the caller, which calls read() on the current reader;
\* it raises instead when close() has closed the transport meanwhile
DrainDone(g, doc) ==
    /\ gpc[g] = "draining"
    /\ UNCHANGED <<writer, reader, nconn, inbound, eof, gkind, writes>>
    /\ IF wconn[g] \in closed
       THEN Raise(g) /\ UNCHANGED <<outbound, waiter, reads>>
       ELSE ReadCall(g, gkind[g], doc, wconn[g])
    /\ UNCHANGED closed
    /\ UNCHANGED nonGateway

\* read() returns: the stream the caller waits on has ended
ReadDone(g, doc) ==
    /\ gpc[g] = "reading"
    /\ eof[rconn[g]]
    /\ Deliver(g, gkind[g], outbound[rconn[g]], doc)
    /\ outbound' = [outbound EXCEPT ![rconn[g]] = <<>>]
    /\ waiter' = [waiter EXCEPT ![rconn[g]] = 0]
    /\ UNCHANGED <<writer, reader, nconn, inbound, eof, gkind, writes, reads>>
    /\ UNCHANGED closed
    /\ UNCHANGED nonGateway

\* the caller has taken the value (or the exception) of its call
GatewayDone(g) ==
    /\ gpc[g] = "returned"
    /\ gpc' = [gpc EXCEPT ![g] = "idle"]
    /\ gkind' = [gkind EXCEPT ![g] = null]
    /\ gresponse' = [gresponse EXCEPT ![g] = NoResponse]
    /\ answers' = [answers EXCEPT ![g] = 0]
    /\ ret' = [ret EXCEPT ![g] = NoRet]
    /\ outcome' = [outcome EXCEPT ![g] = "none"]
    /\ writes' = [writes EXCEPT ![g] = 0]
    /\ reads' = [reads EXCEPT ![g] = 0]
    /\ UNCHANGED <<writer, reader, nconn, inbound, outbound, eof, waiter,
                   wconn, rconn>>
    /\ UNCHANGED closed
    /\ UNCHANGED nonGateway

\* the engine answers the oldest request of a connection with one document
EngineReply(c) ==
    /\ c <= nconn /\ ~eof[c]
    /\ inbound[c] # <<>>
    /\ Len(outbound[c]) < MaxReplies
    /\ inbound' = [inbound EXCEPT ![c] = Tail(@)]
    /\ outbound' = [outbound EXCEPT ![c] = Append(@, Head(inbound[c]).from)]
    /\ UNCHANGED <<writer, reader, nconn, eof, waiter, gpc, gkind, wconn,
                   rconn, gresponse, answers, ret, outcome, writes, reads>>
    /\ UNCHANGED closed
    /\ UNCHANGED nonGateway

\* the engine closes its end of a connection: the stream ends
EngineClose(c) ==
    /\ c <= nconn /\ ~eof[c]
    /\ eof' = [eof EXCEPT ![c] = TRUE]
    /\ inbound' = [inbound EXCEPT ![c] = <<>>]
    /\ UNCHANGED <<writer, reader, nconn, outbound, waiter, gpc, gkind, wconn,
                   rconn, gresponse, answers, ret, outcome, writes, reads>>
    /\ UNCHANGED closed
    /\ UNCHANGED nonGateway

\* close(): a no-op while self._writer is None; otherwise the transport is
\* closed (the reader is fed the end of the stream, the engine gets no more
\* of it) and self._writer, self._reader keep referring to it
Close ==
    /\ writer # 0
    /\ writer \notin closed
    /\ closed' = closed \cup {writer}
    /\ eof' = [eof EXCEPT ![writer] = TRUE]
    /\ inbound' = [inbound EXCEPT ![writer] = <<>>]
    /\ UNCHANGED <<writer, reader, nconn, outbound, waiter, gpc, gkind, wconn,
                   rconn, gresponse, answers, ret, outcome, writes, reads>>
    /\ UNCHANGED nonGateway

GatewayNext ==
    \/ \E g \in Callers, k \in Kinds, how \in DrainOutcomes,
          doc \in DocChoices(reader) : CallWriting(g, k, how, doc)
    \/ \E g \in Callers, k \in Kinds : CallConnecting(g, k)
    \/ \E g \in Callers, how \in DrainOutcomes : ConnectDone(g, how)
    \/ \E g \in Callers : ConnectFails(g)
    \/ \E g \in Callers, doc \in DocChoices(reader) : DrainDone(g, doc)
    \/ \E g \in Callers : \E doc \in DocChoices(rconn[g]) : ReadDone(g, doc)
    \/ \E g \in Callers : GatewayDone(g)
    \/ \E c \in Conns : EngineReply(c)
    \/ \E c \in Conns : EngineClose(c)

\* caller g awaits its call while no other call on the handle is under way
\* (execute_sniping: check_security, then request_transaction)
Successive(g) == \A h \in Callers \ {g} : gpc[h] \in {"idle", "returned"}

\* the handle used by one coroutine: each call begins after the one before
\* it has returned or raised
GatewaySuccessiveNext ==
    \/ \E g \in Callers, k \in Kinds, how \in DrainOutcomes,
          doc \in DocChoices(reader) :
             Successive(g) /\ CallWriting(g, k, how, doc)
    \/ \E g \in Callers, k \in Kinds : Successive(g) /\ CallConnecting(g, k)
    \/ \E g \in Callers, how \in DrainOutcomes : ConnectDone(g, how)
    \/ \E g \in Callers : ConnectFails(g)
    \/ \E g \in Callers, doc \in DocChoices(reader) : DrainDone(g, doc)
    \/ \E g \in Callers : \E doc \in DocChoices(rconn[g]) : ReadDone(g, doc)
    \/ \E g \in Callers : GatewayDone(g)
    \/ \E c \in Conns : EngineReply(c)
    \/ \E c \in Conns : EngineClose(c)

\* the handle's calls together with close()
GatewayCloseNext ==
    \/ GatewayNext
    \/ Close

(* --------------------- JupiterMonitor, JupiterService ------------------ *)
MonitorInit ==
    /\ is_running = FALSE
    /\ mpc = [l \in Starters |-> "idle"]
    /\ left = [l \in Starters |-> 0]
    /\ cur = [l \in Starters |-> NoRecord]
    /\ opp_ts = [l \in Starters |-> 0]
    /\ pools_cache = [i \in PoolIds |-> NoRecord]
    /\ price_history = [i \in PoolIds |-> <<>>]
    /\ opportunities = <<>>
    /\ ticks = 0
    /\ last_fetch = [l \in Starters |-> "none"]
    /\ acquires = [l \in Starters |-> 0]
    /\ apc = "idle"
    /\ errors = 0

\* a diff that takes every record for a change
ChangedAlways(r) == TRUE

\* pool_id not in self.pools_cache, or price_usd or liquidity_usd differs
Changed(r) ==
    \/ pools_cache[r.id] = NoRecord
    \/ pools_cache[r.id].price # r.price
    \/ pools_cache[r.id].liquidity # r.liquidity

\* what analyze_pool may return for a record: an opportunity (TRUE) or
\* None; a record without token_address gives None (the KeyError is caught)
AnalyzeOutcomes(r) == IF r.has_token THEN BOOLEAN ELSE {FALSE}

\* the entries with timestamp >= cutoff, cutoff = now - 24 hours
Fresh(list, time) ==
    SelectSeq(list, LAMBDA e : e.timestamp >= time - Retention)

\* `while self.is_running` found the flag set: the fetch is awaited
BeginTick(l) ==
    /\ ticks < MaxTicks
    /\ ticks' = ticks + 1
    /\ mpc' = [mpc EXCEPT ![l] = "fetching"]
    /\ acquires' = [acquires EXCEPT ![l] = 0]

\* the for loop moves past a record; after the last one the loop sleeps
Advance(l) ==
    /\ left' = [left EXCEPT ![l] = @ - 1]
    /\ cur' = [cur EXCEPT ![l] = NoRecord]
    /\ opp_ts' = [opp_ts EXCEPT ![l] = 0]
    /\ mpc' = [mpc EXCEPT ![l] = IF left[l] = 1 THEN "sleeping" ELSE "record"]

\* an except clause that clears the flag and returns without logging
AbortSilent(l) ==
    /\ UNCHANGED errors
    /\ is_running' = FALSE
    /\ mpc' = [mpc EXCEPT ![l] = "ended"]
    /\ left' = [left EXCEPT ![l] = 0]
    /\ cur' = [cur EXCEPT ![l] = NoRecord]
    /\ opp_ts' = [opp_ts EXCEPT ![l] = 0]

\* an exception reaches the except clause around the while loop: it is
\* logged, the flag is cleared and monitor_new_pools returns
Abort(l) ==
    /\ errors' = errors + 1
    /\ is_running' = FALSE
    /\ mpc' = [mpc EXCEPT ![l] = "ended"]
    /\ left' = [left EXCEPT ![l] = 0]
    /\ cur' = [cur EXCEPT ![l] = NoRecord]
    /\ opp_ts' = [opp_ts EXCEPT ![l] = 0]

\* start(): with the flag clear, sets it and runs monitor_new_pools, which
\* tests the flag and awaits the first fetch (with the flag set, start()
\* does nothing)
Start(l) ==
    /\ mpc[l] \in {"idle", "ended"}
    /\ ~is_running
    /\ is_running' = TRUE
    /\ BeginTick(l)
    /\ UNCHANGED <<left, cur, opp_ts, pools_cache, price_history,
                   opportunities, last_fetch, apc>>
    /\ UNCHANGED lvars
    /\ UNCHANGED nonMonitor

\* stop(): clears the flag when it is set
Stop ==
    /\ is_running
    /\ is_running' = FALSE
    /\ UNCHANGED <<mpc, left, cur, opp_ts, pools_cache, price_history,
                   opportunities, ticks, last_fetch, acquires, apc>>
    /\ UNCHANGED lvars
    /\ UNCHANGED nonMonitor

\* a fetch that goes straight to the except clause
FetchFailsFatal(l) ==
    /\ mpc[l] = "fetching"
    /\ Abort(l)
    /\ last_fetch' = [last_fetch EXCEPT ![l] = "failed"]
    /\ UNCHANGED <<pools_cache, price_history, opportunities, ticks,
                   acquires, apc>>
    /\ UNCHANGED lvars
    /\ UNCHANGED nonMonitorLog

\* the awaited fetch raises (a patched _fetch_jupiter_data, as in
\* test_monitor_new_pools_error): the except clause around the while loop
FetchRaises(l) ==
    /\ mpc[l] = "fetching"
    /\ Abort(l)
    /\ last_fetch' = [last_fetch EXCEPT ![l] = "raised"]
    /\ UNCHANGED <<pools_cache, price_history, opportunities, ticks,
                   acquires, apc>>
    /\ UNCHANGED lvars
    /\ UNCHANGED nonMonitorLog

\* _fetch_jupiter_data returns None (a status other than 200, or an
\* exception it caught and logged): last_update is set and the loop sleeps
FetchFails(l) ==
    /\ mpc[l] = "fetching"
    /\ mpc' = [mpc EXCEPT ![l] = "sleeping"]
    /\ last_fetch' = [last_fetch EXCEPT ![l] = "failed"]
    /\ UNCHANGED <<is_running, left, cur, opp_ts, pools_cache, price_history,
                   opportunities, ticks, acquires, apc>>
    /\ UNCHANGED lvars
    /\ UNCHANGED nonMonitor

\* _fetch_jupiter_data returns a list of n records (an empty list is falsy:
\* the loop sleeps)
FetchReturns(l, n) ==
    /\ mpc[l] = "fetching"
    /\ left' = [left EXCEPT ![l] = n]
    /\ mpc' = [mpc EXCEPT ![l] = IF n = 0 THEN "sleeping" ELSE "record"]
    /\ last_fetch' = [last_fetch EXCEPT ![l] = "ok"]
    /\ UNCHANGED <<is_running, cur, opp_ts, pools_cache, price_history,
                   opportunities, ticks, acquires, apc>>
    /\ UNCHANGED lvars
    /\ UNCHANGED nonMonitor

\* the for loop takes the next record r: pool["id"] (KeyError when
\* missing), then the diff against pools_cache; a changed record goes to
\* `await self.analyze_pool(pool)`, an unchanged one is passed over
Diff(l, r) ==
    /\ mpc[l] = "record"
    /\ IF r.id = null
       THEN Abort(l)
       ELSE IF Changed(r)
       THEN /\ cur' = [cur EXCEPT ![l] = r]
            /\ mpc' = [mpc EXCEPT ![l] = "analyzing"]
            /\ UNCHANGED <<is_running, left, opp_ts, errors>>
       ELSE /\ Advance(l)
            /\ UNCHANGED <<is_running, errors>>
    /\ UNCHANGED <<pools_cache, price_history, opportunities, ticks,
                   last_fetch, acquires, apc>>
    /\ UNCHANGED lvars
    /\ UNCHANGED nonMonitorLog

\* after the callbacks: self.pools_cache[pool_id] = pool, then
\* pool["token_address"] (KeyError when missing), the append to the token's
\* price history and its pruning to 24 hours; then the next record
Update(l) ==
    /\ pools_cache' = [pools_cache EXCEPT ![cur[l].id] = cur[l]]
    /\ IF cur[l].has_token
       THEN /\ price_history' =
                  [price_history EXCEPT ![cur[l].id] =
                      Fresh(Append(@, [timestamp |-> now,
                                       price |-> cur[l].price]), now)]
            /\ Advance(l)
            /\ UNCHANGED <<is_running, errors>>
       ELSE /\ Abort(l)
            /\ UNCHANGED price_history

\* analyze_pool returned. With an opportunity (created now), the first
\* callback, JupiterService._handle_opportunity, is awaited and calls
\* rate_limiter.acquire(); without one there is no callback
AnalyzeDone(l, opp) ==
    /\ mpc[l] = "analyzing"
    /\ opp \in AnalyzeOutcomes(cur[l])
    /\ IF opp
       THEN /\ opp_ts' = [opp_ts EXCEPT ![l] = now]
            /\ mpc' = [mpc EXCEPT ![l] = "acquiring"]
            /\ acquires' = [acquires EXCEPT ![l] = @ + 1]
            /\ Enqueue(l)
            /\ UNCHANGED <<is_running, left, cur, pools_cache, price_history,
                           errors>>
       ELSE /\ Update(l)
            /\ UNCHANGED acquires
            /\ UNCHANGED lvars
    /\ UNCHANGED <<opportunities, ticks, last_fetch, apc>>
    /\ UNCHANGED nonMonitorLog

\* acquire() has returned in _handle_opportunity: the opportunity is
\* appended and the list is cut to the entries of the last 24 hours; the
\* next registered callback is awaited
HandleOpportunity(l) ==
    /\ mpc[l] = "acquiring"
    /\ rpc[l] = "idle"
    /\ opportunities' =
          Fresh(Append(opportunities,
                       [pool_id |-> cur[l].id, timestamp |-> opp_ts[l]]), now)
    /\ mpc' = [mpc EXCEPT ![l] = "observer"]
    /\ UNCHANGED <<is_running, left, cur, opp_ts, pools_cache, price_history,
                   ticks, last_fetch, acquires, apc>>
    /\ UNCHANGED lvars
    /\ UNCHANGED nonMonitor

\* a callback registered with add_opportunity_callback returns
ObserverReturns(l) ==
    /\ mpc[l] = "observer"
    /\ Update(l)
    /\ UNCHANGED <<opportunities, ticks, last_fetch, acquires, apc>>
    /\ UNCHANGED lvars
    /\ UNCHANGED nonMonitorLog

\* a callback registered with add_opportunity_callback raises
ObserverRaises(l) ==
    /\ mpc[l] = "observer"
    /\ Abort(l)
    /\ UNCHANGED <<pools_cache, price_history, opportunities, ticks,
                   last_fetch, acquires, apc>>
    /\ UNCHANGED lvars
    /\ UNCHANGED nonMonitorLog

\* asyncio.sleep(self.update_interval) is over: the while test is made
SleepDone(l) ==
    /\ mpc[l] = "sleeping"
    /\ IF is_running
       THEN BeginTick(l)
       ELSE /\ mpc' = [mpc EXCEPT ![l] = "ended"]
            /\ UNCHANGED <<ticks, acquires>>
    /\ UNCHANGED <<is_running, left, cur, opp_ts, pools_cache, price_history,
                   opportunities, last_fetch, apc>>
    /\ UNCHANGED lvars
    /\ UNCHANGED nonMonitor

\* get_opportunities is called: it awaits rate_limiter.acquire()
GetOpportunitiesCalled ==
    /\ apc = "idle"
    /\ Len(requests) < MaxQueue
    /\ apc' = "acquiring"
    /\ Enqueue(ApiTask)
    /\ UNCHANGED <<is_running, mpc, left, cur, opp_ts, pools_cache,
                   price_history, opportunities, ticks, last_fetch, acquires>>
    /\ UNCHANGED nonMonitor

\* acquire() has returned in get_opportunities: the list is filtered,
\* sorted and returned; self.opportunities is left as it is
GetOpportunitiesReturns ==
    /\ apc = "acquiring"
    /\ rpc[ApiTask] = "idle"
    /\ apc' = "idle"
    /\ UNCHANGED <<is_running, mpc, left, cur, opp_ts, pools_cache,
                   price_history, opportunities, ticks, last_fetch, acquires>>
    /\ UNCHANGED lvars
    /\ UNCHANGED nonMonitor

\* the steps of a loop and of the RateLimiter its first callback waits on
MonitorNext ==
    \/ \E l \in Loops : Start(l)
    \/ Stop
    \/ \E l \in Loops : FetchFails(l)
    \/ \E l \in Loops, n \in 0..MaxRecords : FetchReturns(l, n)
    \/ \E l \in Loops, r \in Records : Diff(l, r)
    \/ \E l \in Loops, opp \in BOOLEAN : AnalyzeDone(l, opp)
    \/ \E l \in Loops : HandleOpportunity(l)
    \/ \E l \in Loops : ObserverReturns(l)
    \/ \E l \in Loops : ObserverRaises(l)
    \/ \E l \in Loops : SleepDone(l)
    \/ \E t \in Tasks : LockGranted(t)
    \/ \E t \in Tasks : AfterSleep(t)

\* the monitor with a fetch that may raise
MonitorPatchedNext ==
    \/ MonitorNext
    \/ \E l \in Loops : FetchRaises(l)

\* the monitor while start() and stop() are called from two tasks
MonitorRestartNext ==
    \/ \E l \in Starters : Start(l)
    \/ Stop
    \/ \E l \in Starters : FetchFails(l)
    \/ \E l \in Starters, n \in 0..MaxRecords : FetchReturns(l, n)
    \/ \E l \in Starters, r \in Records : Diff(l, r)
    \/ \E l \in Starters, opp \in BOOLEAN : AnalyzeDone(l, opp)
    \/ \E l \in Starters : HandleOpportunity(l)
    \/ \E l \in Starters : ObserverReturns(l)
    \/ \E l \in Starters : ObserverRaises(l)
    \/ \E l \in Starters : SleepDone(l)
    \/ \E t \in Tasks : LockGranted(t)
    \/ \E t \in Tasks : AfterSleep(t)

\* the records fetched while the clock runs: one pool, its price moving
ClockRecords ==
    {r \in Records : r.id = "A" /\ r.has_token /\ r.liquidity = 1}

\* the same steps while time passes and get_opportunities is being called
MonitorClockNext ==
    \/ \E l \in Loops : Start(l)
    \/ Stop
    \/ \E l \in Loops : FetchFails(l)
    \/ \E l \in Loops, n \in 0..MaxRecords : FetchReturns(l, n)
    \/ \E l \in Loops, r \in ClockRecords : Diff(l, r)
    \/ \E l \in Loops, opp \in BOOLEAN : AnalyzeDone(l, opp)
    \/ \E l \in Loops : HandleOpportunity(l)
    \/ \E l \in Loops : ObserverReturns(l)
    \/ \E l \in Loops : ObserverRaises(l)
    \/ \E l \in Loops : SleepDone(l)
    \/ GetOpportunitiesCalled
    \/ GetOpportunitiesReturns
    \/ \E t \in Tasks : LockGranted(t)
    \/ \E t \in Tasks : AfterSleep(t)
    \/ Tick

(* ----------------- JupiterMonitor: analysis of a pool ------------------- *)
\* Decimal amounts are integers; a price impact is in tenths of a percent
\* (Decimal("1") percent is 10); a profit, in percent, is the fraction
\* num / den with den > 0.

\* max_price_impact = 2.0 (percent), the constructor's default
max_price_impact == 20

\* min_profit_threshold = 0.5 (percent), the constructor's default
min_profit_threshold == [num |-> 1, den |-> 2]

\* the thresholds a monitor is constructed with, the pool record, the first
\* price of the token's history within the last hour ("none" when there is
\* none) and the reply of get_quote: None, a quote with priceImpactPct, or
\* a quote without it
AnalysisInputs ==
    [min_liquidity_usd : {2, 4},
     min_volume_24h : {2, 4},
     liquidity : {0, 1, 3, 4, 8, 10, 20},
     volume_24h : {1, 3, 4, 10, 20},
     has_token : BOOLEAN,
     has_mints : BOOLEAN,
     old_price : {"none", "zero", "positive"},
     quote : {"none", "impact", "no_impact"},
     price_impact : {-10, 5, 6, 10, 15, 20, 21, 1500}]

NoInput ==
    [min_liquidity_usd |-> 0, min_volume_24h |-> 0, liquidity |-> 0,
     volume_24h |-> 0, has_token |-> FALSE, has_mints |-> FALSE,
     old_price |-> "none", quote |-> "none", price_impact |-> 0]

NoOutput ==
    [op |-> "none", raised |-> FALSE, num |-> 0, den |-> 1, score |-> 0,
     level |-> "none", opportunity |-> FALSE]

AnalysisInit ==
    /\ a_in = NoInput
    /\ a_out = NoOutput

\* volume_score = min(volume_24h / (liquidity * 2), 1)
\* impact_score = (100 - price_impact) / 100
\* return 3 * volume_score * impact_score
\* (the division raises for liquidity = 0)
estimate_profit(price_impact, volume_24h, liquidity) ==
    IF liquidity = 0
    THEN [raised |-> TRUE, num |-> 0, den |-> 1]
    ELSE [raised |-> FALSE,
          num |-> 3 * (IF volume_24h < 2 * liquidity
                       THEN volume_24h ELSE 2 * liquidity)
                    * (1000 - price_impact),
          den |-> 2 * liquidity * 1000]

\* a plausible slip: the price-impact thresholds taken inclusively
risk_score_inclusive(self, price_impact, liquidity, volume_24h) ==
    (IF price_impact >= 10 THEN 2 ELSE IF price_impact >= 5 THEN 1 ELSE 0)
    + (IF liquidity < self.min_liquidity_usd * 2 THEN 2
       ELSE IF liquidity < self.min_liquidity_usd * 5 THEN 1 ELSE 0)
    + (IF volume_24h < self.min_volume_24h * 2 THEN 2
       ELSE IF volume_24h < self.min_volume_24h * 5 THEN 1 ELSE 0)

\* risk_score as calculate_risk_level accumulates it
risk_score(self, price_impact, liquidity, volume_24h) ==
    (IF price_impact > 10 THEN 2 ELSE IF price_impact > 5 THEN 1 ELSE 0)
    + (IF liquidity < self.min_liquidity_usd * 2 THEN 2
       ELSE IF liquidity < self.min_liquidity_usd * 5 THEN 1 ELSE 0)
    + (IF volume_24h < self.min_volume_24h * 2 THEN 2
       ELSE IF volume_24h < self.min_volume_24h * 5 THEN 1 ELSE 0)

\* a plausible slip: the two tests on the score in the other order
calculate_risk_level_swapped(self, price_impact, liquidity, volume_24h) ==
    LET score == risk_score(self, price_impact, liquidity, volume_24h) IN
    IF score >= 2 THEN "MEDIUM" ELSE IF score >= 4 THEN "HIGH" ELSE "LOW"

\* calculate_risk_level: HIGH from 4 points, MEDIUM from 2, else LOW
calculate_risk_level(self, price_impact, liquidity, volume_24h) ==
    LET score == risk_score(self, price_impact, liquidity, volume_24h) IN
    IF score >= 4 THEN "HIGH" ELSE IF score >= 2 THEN "MEDIUM" ELSE "LOW"

\* quote.get("priceImpactPct", 100)
QuotedImpact(self) ==
    IF self.quote = "impact" THEN self.price_impact ELSE 1000

\* analyze_pool: the checks in the order of the code; every exception
\* (pool["token_address"], the division by the old price, pool["input_mint"],
\* estimate_profit) is caught, logged and answered with None
analyze_pool(self) ==
    LET profit == estimate_profit(QuotedImpact(self), self.volume_24h,
                                  self.liquidity)
        none == [raised |-> FALSE, num |-> 0, den |-> 1, score |-> 0,
                 level |-> "none", opportunity |-> FALSE]
        error == [none EXCEPT !.raised = TRUE]
    IN  IF self.liquidity < self.min_liquidity_usd THEN none
        ELSE IF self.volume_24h < self.min_volume_24h THEN none
        ELSE IF ~self.has_token THEN error
        ELSE IF self.old_price = "zero" THEN error
        ELSE IF ~self.has_mints THEN error
        ELSE IF self.quote = "none" THEN none
        ELSE IF QuotedImpact(self) > max_price_impact THEN none
        ELSE IF profit.raised THEN error
        ELSE IF profit.num * min_profit_threshold.den
                   > min_profit_threshold.num * profit.den
        THEN [raised |-> FALSE, num |-> profit.num, den |-> profit.den,
              score |-> risk_score(self, QuotedImpact(self), self.liquidity,
                                   self.volume_24h),
              level |-> calculate_risk_level(self, QuotedImpact(self),
                                             self.liquidity, self.volume_24h),
              opportunity |-> TRUE]
        ELSE none

\* estimate_profit is applied to the arguments
EstimateProfit ==
    /\ a_in # NoInput
    /\ LET r == estimate_profit(a_in.price_impact, a_in.volume_24h,
                                a_in.liquidity) IN
       a_out' = [NoOutput EXCEPT !.op = "estimate_profit",
                                 !.raised = r.raised,
                                 !.num = r.num, !.den = r.den]
    /\ UNCHANGED a_in
    /\ UNCHANGED nonAnalysis

\* calculate_risk_level is applied to the arguments
CalculateRiskLevel ==
    /\ a_in # NoInput
    /\ a_out' = [NoOutput EXCEPT
                    !.op = "calculate_risk_level",
                    !.score = risk_score(a_in, a_in.price_impact,
                                         a_in.liquidity, a_in.volume_24h),
                    !.level = calculate_risk_level(a_in, a_in.price_impact,
                                                   a_in.liquidity,
                                                   a_in.volume_24h)]
    /\ UNCHANGED a_in
    /\ UNCHANGED nonAnalysis

\* analyze_pool is applied to the pool record
AnalyzePool ==
    /\ a_in # NoInput
    /\ a_out' = [op |-> "analyze_pool"] @@ analyze_pool(a_in)
    /\ UNCHANGED a_in
    /\ UNCHANGED nonAnalysis

AnalysisNext ==
    \/ EstimateProfit
    \/ CalculateRiskLevel
    \/ AnalyzePool

(* -------------- SnipingRuleEngine and the strategy handlers ------------ *)
\* A rule is (metric, operator, value, priority); a strategy is (name,
\* enabled, min_profit, rules), its description, max_loss, position_size and
\* max_slippage being carried along untouched. `typed` tells SnipingRule
\* objects (add_strategy, load_strategies) from the raw dicts update_strategy
\* stores as they came in the request.
Rule(metric, operator, value, priority) ==
    [metric |-> metric, operator |-> operator, value |-> value,
     priority |-> priority]

\* the values of RuleOperator
RuleOperators == {">", "<", "=", "!=", ">=", "<="}

\* the fields of a SnipingOpportunity a rule may name: Decimal ones, and
\* risk_level, a string
NumericFields == {"liquidity", "volume_24h", "price_change_1h",
                  "estimated_profit"}
TextFields == {"risk_level"}

\* create_default_strategy()
DefaultStrategy ==
    [name |-> "Default Strategy", enabled |-> TRUE, min_profit |-> 2,
     rules |-> <<Rule("liquidity", ">", 10000, 5),
                 Rule("volume_24h", ">", 5000, 4),
                 Rule("price_change_1h", ">", 5, 3),
                 Rule("estimated_profit", ">", 2, 2)>>,
     typed |-> TRUE]

StrategyNames == {"Default Strategy", "Custom"}

\* rule lists handed to add_strategy: none; two rules on liquidity and
\* volume, the lower priority first; a metric that is no field; an operator
\* that is no RuleOperator; an ordering on the string field
RuleLists ==
    {<<>>,
     <<Rule("volume_24h", ">", 5000, 4), Rule("liquidity", ">", 10000, 5)>>,
     <<Rule("market_cap", ">", 1, 3)>>,
     <<Rule("liquidity", "~", 1, 3)>>,
     <<Rule("risk_level", ">", 1, 3)>>}

\* SnipingStrategy objects handed to add_strategy
Strategies ==
    {[name |-> n, enabled |-> e, min_profit |-> 2, rules |-> r,
      typed |-> TRUE] :
        n \in StrategyNames, e \in BOOLEAN, r \in RuleLists}

\* strategy_data of an update_strategy request: the JSON object, its rules
\* a list of JSON objects
StrategyData ==
    {[name |-> n, enabled |-> e, min_profit |-> 2, rules |-> r] :
        n \in StrategyNames, e \in BOOLEAN,
        r \in {<<>>,
               <<Rule("liquidity", ">", 10000, 5),
                 Rule("volume_24h", ">", 5000, 4)>>}}

\* a request body without the keys of a strategy
NoData == [name |-> null, enabled |-> FALSE, min_profit |-> 0, rules |-> <<>>]

\* the contents of a strategies file: empty, one strategy, the same name
\* twice, two names
Files ==
    LET custom == [name |-> "Custom", enabled |-> TRUE, min_profit |-> 2,
                   rules |-> <<>>, typed |-> TRUE]
    IN  {<<>>, <<custom>>, <<custom, custom>>, <<DefaultStrategy, custom>>}

\* opportunities handed to evaluate_opportunity
Opportunities ==
    {[liquidity |-> 20000, volume_24h |-> v, price_change_1h |-> 6,
      estimated_profit |-> p, risk_level |-> "LOW"] :
        v \in {6000, 4000}, p \in {3, 1}}

NoOpportunity ==
    [liquidity |-> 0, volume_24h |-> 0, price_change_1h |-> 0,
     estimated_profit |-> 0, risk_level |-> "none"]

NoEngineOutput ==
    [op |-> "none", kind |-> "none", index |-> 0, data |-> NoData,
     list |-> <<>>, opp |-> NoOpportunity]

\* SnipingService.__init__: the engine holds the default strategy
EngineInit ==
    /\ strategies = <<DefaultStrategy>>
    /\ e_out = NoEngineOutput

\* _evaluate_rule: getattr (AttributeError is caught: False), then the
\* comparison the operator names; an ordering between a str and a Decimal
\* raises TypeError, which is not caught; an operator that is none of the
\* six falls through to `return False`
_evaluate_rule(rule, opp) ==
    IF rule.metric \notin NumericFields \cup TextFields THEN "false"
    ELSE IF rule.operator \notin RuleOperators THEN "false"
    ELSE IF rule.metric \in TextFields
    THEN CASE rule.operator = "=" -> "false"
           [] rule.operator = "!=" -> "true"
           [] OTHER -> "raised"
    ELSE LET metric_value == opp[rule.metric] IN
         IF CASE rule.operator = ">" -> metric_value > rule.value
              [] rule.operator = "<" -> metric_value < rule.value
              [] rule.operator = "=" -> metric_value = rule.value
              [] rule.operator = "!=" -> metric_value # rule.value
              [] rule.operator = ">=" -> metric_value >= rule.value
              [] rule.operator = "<=" -> metric_value <= rule.value
         THEN "true" ELSE "false"

\* sorted(strategy.rules, key=lambda x: x.priority, reverse=True): stable
RECURSIVE SortedByPriority(_)
SortedByPriority(rules) ==
    IF rules = <<>> THEN <<>>
    ELSE LET first == CHOOSE i \in 1..Len(rules) :
                         /\ \A j \in 1..Len(rules) :
                               rules[j].priority <= rules[i].priority
                         /\ \A j \in 1..(i - 1) :
                               rules[j].priority < rules[i].priority
             rest == [k \in 1..(Len(rules) - 1) |->
                         IF k < first THEN rules[k] ELSE rules[k + 1]]
         IN  <<rules[first]>> \o SortedByPriority(rest)

\* the for loop over the sorted rules: the first rule that is not satisfied
\* ends it
RECURSIVE EvaluateRules(_, _)
EvaluateRules(rules, opp) ==
    IF rules = <<>> THEN "true"
    ELSE LET r == _evaluate_rule(Head(rules), opp) IN
         IF r = "true" THEN EvaluateRules(Tail(rules), opp) ELSE r

\* _evaluate_strategy: the profit test, then the rules by descending
\* priority; the sort key x.priority raises AttributeError on a dict
_evaluate_strategy(strategy, opp) ==
    IF opp.estimated_profit < strategy.min_profit THEN "false"
    ELSE IF strategy.rules # <<>> /\ ~strategy.typed THEN "raised"
    ELSE EvaluateRules(SortedByPriority(strategy.rules), opp)

\* evaluate_opportunity, from the strategy at position i on: a disabled
\* strategy is skipped, the first one that matches is returned
RECURSIVE evaluate_from(_, _, _)
evaluate_from(list, i, opp) ==
    IF i > Len(list) THEN [kind |-> "none", index |-> 0]
    ELSE IF ~list[i].enabled THEN evaluate_from(list, i + 1, opp)
    ELSE LET r == _evaluate_strategy(list[i], opp) IN
         IF r = "raised" THEN [kind |-> "raised", index |-> 0]
         ELSE IF r = "true" THEN [kind |-> "strategy", index |-> i]
         ELSE evaluate_from(list, i + 1, opp)

evaluate_opportunity(list, opp) == evaluate_from(list, 1, opp)

\* a removal that stops at the first strategy of that name
remove_first(list, name) ==
    IF \E i \in 1..Len(list) : list[i].name = name
    THEN LET i == CHOOSE i \in 1..Len(list) :
                     /\ list[i].name = name
                     /\ \A j \in 1..(i - 1) : list[j].name # name
         IN  SubSeq(list, 1, i - 1) \o SubSeq(list, i + 1, Len(list))
    ELSE list

\* remove_strategy: [s for s in self.strategies if s.name != strategy_name]
remove_strategy(list, name) == SelectSeq(list, LAMBDA t : t.name # name)

\* the dict get_strategies builds for one strategy
ValueObject(strategy) ==
    [name |-> strategy.name, enabled |-> strategy.enabled,
     min_profit |-> strategy.min_profit, rules |-> strategy.rules]

\* what the rule names: the comparison of a Decimal field of the
\* opportunity with rule.value through one of the six operators
Satisfied(rule, opp) ==
    /\ rule.metric \in NumericFields
    /\ CASE rule.operator = ">" -> opp[rule.metric] > rule.value
         [] rule.operator = "<" -> opp[rule.metric] < rule.value
         [] rule.operator = "=" -> opp[rule.metric] = rule.value
         [] rule.operator = "!=" -> opp[rule.metric] # rule.value
         [] rule.operator = ">=" -> opp[rule.metric] >= rule.value
         [] rule.operator = "<=" -> opp[rule.metric] <= rule.value
         [] OTHER -> FALSE

\* the profit reaches min_profit and every rule is satisfied
Matches(strategy, opp) ==
    /\ opp.estimated_profit >= strategy.min_profit
    /\ \A k \in 1..Len(strategy.rules) : Satisfied(strategy.rules[k], opp)

\* engine.add_strategy(strategy)
AddStrategy(strategy) ==
    /\ Len(strategies) < MaxStrategies
    /\ strategies' = Append(strategies, strategy)
    /\ e_out' = [NoEngineOutput EXCEPT !.op = "add_strategy"]
    /\ UNCHANGED nonEngine

\* engine.remove_strategy(name)
RemoveStrategy(name) ==
    /\ strategies' = remove_strategy(strategies, name)
    /\ e_out' = [NoEngineOutput EXCEPT !.op = "remove_strategy"]
    /\ UNCHANGED nonEngine

\* SnipingService.update_strategy(strategy_data): a missing key raises
\* before the engine is touched and is answered with success False;
\* otherwise the strategy of that name is removed and the new one appended,
\* its rules the list of the request as it came
UpdateStrategy(data) ==
    /\ IF data = NoData
       THEN /\ e_out' = [NoEngineOutput EXCEPT !.op = "update_strategy",
                                               !.kind = "failure"]
            /\ UNCHANGED strategies
       ELSE /\ Len(remove_strategy(strategies, data.name)) < MaxStrategies
            /\ strategies' =
                  Append(remove_strategy(strategies, data.name),
                         [name |-> data.name, enabled |-> data.enabled,
                          min_profit |-> data.min_profit,
                          rules |-> data.rules,
                          typed |-> data.rules = <<>>])
            /\ e_out' = [NoEngineOutput EXCEPT !.op = "update_strategy",
                                               !.kind = "success",
                                               !.data = data]
    /\ UNCHANGED nonEngine

\* engine.load_strategies(filepath): the list is replaced by the file's
LoadStrategies(file) ==
    /\ strategies' = file
    /\ e_out' = [NoEngineOutput EXCEPT !.op = "load_strategies"]
    /\ UNCHANGED nonEngine

\* SnipingService.get_strategies(): rule.metric raises AttributeError on a
\* rule that is a dict
GetStrategies ==
    /\ e_out' =
          IF \E i \in 1..Len(strategies) :
                strategies[i].rules # <<>> /\ ~strategies[i].typed
          THEN [e_out EXCEPT !.op = "get_strategies", !.kind = "raised",
                             !.index = 0, !.list = <<>>,
                             !.opp = NoOpportunity]
          ELSE [e_out EXCEPT !.op = "get_strategies", !.kind = "list",
                             !.index = 0,
                             !.list = [i \in 1..Len(strategies) |->
                                          ValueObject(strategies[i])],
                             !.opp = NoOpportunity]
    /\ UNCHANGED strategies
    /\ UNCHANGED nonEngine

\* engine.evaluate_opportunity(opp)
EvaluateOpportunity(opp) ==
    /\ LET r == evaluate_opportunity(strategies, opp) IN
       e_out' = [e_out EXCEPT !.op = "evaluate_opportunity",
                              !.kind = r.kind, !.index = r.index,
                              !.list = <<>>, !.opp = opp]
    /\ UNCHANGED strategies
    /\ UNCHANGED nonEngine

\* str(d) of a Decimal d, and Decimal(s) of such a string
str(d) == <<"str", d>>
Decimal(s) == s[2]

\* RuleOperator(text): the member with that value
RuleOperatorOf(text) == CHOOSE operator \in RuleOperators : operator = text

\* the strategies file: absent, or the JSON list save_strategies dumped
NoFile == [exists |-> FALSE, content |-> <<>>]

StorageInit == storage = NoFile

\* save_strategies reads rule.metric and rule.operator.value: a rule that is
\* a dict, or whose operator is no RuleOperator, raises AttributeError
Serializable(strategy) ==
    /\ strategy.rules # <<>> => strategy.typed
    /\ \A k \in 1..Len(strategy.rules) :
          strategy.rules[k].operator \in RuleOperators

\* strategy_data of save_strategies for one strategy
strategy_data(strategy) ==
    [name |-> strategy.name, enabled |-> strategy.enabled,
     min_profit |-> str(strategy.min_profit),
     rules |-> [k \in 1..Len(strategy.rules) |->
                  [metric |-> strategy.rules[k].metric,
                   operator |-> strategy.rules[k].operator,
                   value |-> str(strategy.rules[k].value),
                   priority |-> strategy.rules[k].priority]]]

\* the SnipingStrategy load_strategies builds from one strategy_data
strategy_of(data) ==
    [name |-> data.name, enabled |-> data.enabled,
     min_profit |-> Decimal(data.min_profit),
     rules |-> [k \in 1..Len(data.rules) |->
                  Rule(data.rules[k].metric,
                       RuleOperatorOf(data.rules[k].operator),
                       Decimal(data.rules[k].value),
                       data.rules[k].priority)],
     typed |-> TRUE]

\* engine.save_strategies(filepath): the list is built first; the file is
\* opened and written only when that did not raise
SaveStrategies ==
    /\ IF \A i \in 1..Len(strategies) : Serializable(strategies[i])
       THEN /\ storage' = [exists |-> TRUE,
                           content |-> [i \in 1..Len(strategies) |->
                                           strategy_data(strategies[i])]]
            /\ e_out' = [NoEngineOutput EXCEPT !.op = "save_strategies",
                                               !.kind = "saved"]
       ELSE /\ UNCHANGED storage
            /\ e_out' = [NoEngineOutput EXCEPT !.op = "save_strategies",
                                               !.kind = "raised"]
    /\ UNCHANGED strategies
    /\ UNCHANGED nonEngineFile

\* engine.load_strategies(filepath) on the file save_strategies writes
LoadSaved ==
    /\ storage.exists
    /\ LoadStrategies([i \in 1..Len(storage.content) |->
                         strategy_of(storage.content[i])])

\* open(filepath, 'r') raises before self.strategies is reset
LoadMissing ==
    /\ ~storage.exists
    /\ e_out' = [NoEngineOutput EXCEPT !.op = "load_strategies",
                                       !.kind = "raised"]
    /\ UNCHANGED <<strategies, storage>>
    /\ UNCHANGED nonEngineFile

PersistenceNext ==
    \/ \E strategy \in Strategies : AddStrategy(strategy)
    \/ \E data \in StrategyData : UpdateStrategy(data)
    \/ SaveStrategies
    \/ LoadSaved
    \/ LoadMissing

EngineNext ==
    \/ \E strategy \in Strategies : AddStrategy(strategy)
    \/ \E name \in StrategyNames : RemoveStrategy(name)
    \/ \E data \in StrategyData \cup {NoData} : UpdateStrategy(data)
    \/ \E file \in Files : LoadStrategies(file)
    \/ GetStrategies
    \/ \E opp \in Opportunities : EvaluateOpportunity(opp)

(* ------------------- JupiterService response cache --------------------- *)
CacheKeys == {"jupiter_stats", "pool_A"}
CacheData == {"d1", "d2"}
\* self._cache_ttl = 10 seconds; the clock of the model ticks every 5 s
_cache_ttl == 2
NoEntry == [present |-> FALSE, data |-> null, timestamp |-> 0]
NoCacheOutput == [op |-> "none", key |-> null, data |-> null]

CacheInit ==
    /\ cache = [k \in CacheKeys |-> NoEntry]
    /\ ctime = 0
    /\ c_out = NoCacheOutput
    /\ last_set = [k \in CacheKeys |-> NoEntry]
    /\ evicted = {}

\* a plausible slip: an entry exactly _cache_ttl old still counts
NotExpiredInclusive(entry, time) == time - entry.timestamp <= _cache_ttl

\* time.time() - timestamp < self._cache_ttl
NotExpired(entry, time) == time - entry.timestamp < _cache_ttl

\* _get_cache(key): the data of a fresh entry; an entry that is not fresh
\* is deleted and None is returned; None for an absent key
_get_cache(key) ==
    /\ IF cache[key].present
       THEN IF NotExpired(cache[key], ctime)
            THEN /\ c_out' = [op |-> "get", key |-> key,
                              data |-> cache[key].data]
                 /\ UNCHANGED <<cache, evicted>>
            ELSE /\ cache' = [cache EXCEPT ![key] = NoEntry]
                 /\ evicted' = evicted \cup {key}
                 /\ c_out' = [op |-> "get", key |-> key, data |-> null]
       ELSE /\ c_out' = [op |-> "get", key |-> key, data |-> null]
            /\ UNCHANGED <<cache, evicted>>
    /\ UNCHANGED <<ctime, last_set>>
    /\ UNCHANGED nonCache

\* _set_cache(key, data): the entry is (data, time.time())
_set_cache(key, data) ==
    /\ cache' = [cache EXCEPT ![key] =
                    [present |-> TRUE, data |-> data, timestamp |-> ctime]]
    /\ last_set' = [last_set EXCEPT ![key] =
                       [present |-> TRUE, data |-> data, timestamp |-> ctime]]
    /\ c_out' = [op |-> "set", key |-> key, data |-> data]
    /\ UNCHANGED <<ctime, evicted>>
    /\ UNCHANGED nonCache

\* time passes
CacheTick ==
    /\ ctime < MaxClock
    /\ ctime' = ctime + 1
    /\ UNCHANGED <<cache, c_out, last_set, evicted>>
    /\ UNCHANGED nonCache

CacheNext ==
    \/ \E key \in CacheKeys : _get_cache(key)
    \/ \E key \in CacheKeys, data \in CacheData : _set_cache(key, data)
    \/ CacheTick

(* --------------------------- specifications ---------------------------- *)
Init ==
    /\ ServiceInit /\ LimiterInit /\ GatewayInit /\ MonitorInit
    /\ AnalysisInit
    /\ EngineInit
    /\ StorageInit
    /\ CacheInit

Next == ServiceNext

\* SnipingService with its ledger
Spec == Init /\ [][Next]_vars

\* tasks sharing one RateLimiter
SpecLimiter == Init /\ [][LimiterNext]_vars

\* coroutines sharing one IPCClient handle, and the engine
SpecGateway == Init /\ [][GatewayNext]_vars

\* one coroutine making successive calls on an IPCClient handle
SpecGatewaySuccessive == Init /\ [][GatewaySuccessiveNext]_vars

\* the handle while close() may be called on it at any time
SpecGatewayClose == Init /\ [][GatewayCloseNext]_vars

\* one JupiterMonitor: its loop with both callbacks and the RateLimiter of
\* JupiterService
SpecMonitor == Init /\ [][MonitorNext]_vars

\* one JupiterMonitor whose _fetch_jupiter_data is patched and may raise
SpecMonitorPatched == Init /\ [][MonitorPatchedNext]_vars

\* one JupiterMonitor started and stopped from two tasks
SpecMonitorRestart == Init /\ [][MonitorRestartNext]_vars

\* one JupiterService: the monitor, a task calling get_opportunities, their
\* RateLimiter and the clock
SpecMonitorClock == Init /\ [][MonitorClockNext]_vars

\* the event loop runs every coroutine that is ready: a fetch, an analysis,
\* an observer callback and a sleep come to an end, a record that is due is
\* visited, a task whose lock is available gets it
\* the analysis functions applied to arguments drawn at the start
InitAnalysis ==
    /\ ServiceInit /\ LimiterInit /\ GatewayInit /\ MonitorInit
    /\ EngineInit
    /\ StorageInit
    /\ CacheInit
    /\ a_in \in AnalysisInputs
    /\ a_out = NoOutput

SpecAnalysis == InitAnalysis /\ [][AnalysisNext]_vars

\* the rule engine of a SnipingService and the two strategy handlers
SpecEngine == Init /\ [][EngineNext]_vars

\* the rule engine and its strategies file
SpecPersistence == Init /\ [][PersistenceNext]_vars

\* the response cache of one JupiterService and its clock
SpecCache == Init /\ [][CacheNext]_vars

SpecMonitorFair ==
    /\ SpecMonitor
    /\ \A l \in Loops :
          /\ WF_vars(FetchFails(l) \/ \E n \in 0..MaxRecords : FetchReturns(l, n))
          /\ WF_vars(\E r \in Records : Diff(l, r))
          /\ WF_vars(\E opp \in BOOLEAN : AnalyzeDone(l, opp))
          /\ WF_vars(HandleOpportunity(l))
          /\ WF_vars(ObserverReturns(l) \/ ObserverRaises(l))
          /\ WF_vars(SleepDone(l))
    /\ \A t \in Tasks : WF_vars(LockGranted(t))
    /\ \A t \in Tasks : WF_vars(AfterSleep(t))

\* the event loop runs every coroutine that is ready: a task whose lock is
\* available gets it, a task whose sleep is due resumes
SpecLimiterFair ==
    /\ SpecLimiter
    /\ \A t \in Tasks : WF_vars(LockGranted(t))
    /\ \A t \in Tasks : WF_vars(AfterSleep(t))

(* ======================= SnipingService claims ========================= *)
IsActive(i) == \E k \in 1..Len(active_orders) : active_orders[k] = i

\* C1: within one execute_sniping call, request_transaction is invoked only
\* after check_security returned is_safe = true in that call; a call whose
\* check_security returned unsafe returns {success: false, error}, has not
\* invoked request_transaction and has appended nothing to the ledger.
C1_DispatchOnlyAfterSafe ==
    \A c \in Calls :
        /\ requested[c] => security[c].is_safe
        /\ spc[c] = "request_transaction" => security[c].is_safe
        /\ (spc[c] = "returned" /\ security[c] # NoSecurity
               /\ ~security[c].is_safe)
             => /\ ~requested[c]
                /\ appended[c] = 0
                /\ result[c].success = FALSE
                /\ result[c].error = "security_check_failed"

\* one call is awaiting request_transaction after a safe verdict while
\* another call has returned the security failure
C1_Witness ==
    \E c, d \in Calls :
        /\ spc[c] = "request_transaction" /\ security[c].is_safe
        /\ spc[d] = "returned" /\ result[d].error = "security_check_failed"
        /\ security[d] # NoSecurity /\ ~requested[d]

\* C2: a record is appended, and success reported, only when
\* request_transaction returned a signature: no record of the ledger carries
\* a null signature, and a call that got no signature neither appended a
\* record nor reports success.
C2_RecordOnlyOnSignature ==
    /\ \A i \in 1..Len(transactions) : transactions[i].signature # null
    /\ \A c \in Calls :
          (spc[c] = "returned" /\ result[c].signature = null)
             => (appended[c] = 0 /\ ~result[c].success)

\* C3: a record's status changes only from pending to completed or failed
\* (hence at most once, and never back to pending).
C3_StatusOnlyPendingToTerminal ==
    [][\A i \in 1..Len(transactions) :
          transactions'[i].status # transactions[i].status
             => /\ transactions[i].status = "pending"
                /\ transactions'[i].status \in Terminal]_vars

\* C4: update_transaction_status(sig, s) with s terminal, when a record
\* with signature sig is in the history and in active_orders, gives that
\* record status s, removes it from active_orders, keeps it in the history,
\* and leaves every other record of the history and of active_orders as it
\* was.
C4_UpdateFrame ==
    [][\A sig \in Signatures, s \in Terminal :
          (/\ UpdateTransactionStatus(sig, s)
           /\ \E i \in 1..Len(transactions) :
                 transactions[i].signature = sig /\ IsActive(i))
          => \E i \in 1..Len(transactions) :
                /\ transactions[i].signature = sig
                /\ Len(transactions') = Len(transactions)
                /\ transactions'[i] = [transactions[i] EXCEPT !.status = s]
                /\ ~IsActive(i)'
                /\ \A j \in 1..Len(transactions) : j # i =>
                      /\ transactions'[j] = transactions[j]
                      /\ IsActive(j)' = IsActive(j)]_vars

(* ========================= RateLimiter claims ========================== *)
\* a task is inside the with-block of acquire(): asleep in it, or in the
\* recursive call made from it
InsideSection(t) == rpc[t] = "sleeping" \/ depth[t] > 0

\* C5: every acquire() call eventually returns.
C5_AcquireReturns ==
    \A t \in Tasks : (rpc[t] # "idle") ~> (rpc[t] = "idle")

\* C6: whenever an acquire() has completed, the timestamp queue holds at
\* most max_requests entries, the one just recorded included.
C6_QueueWithinLimit == Len(requests) <= MaxRequests

\* C7: at most one task at a time is inside the prune/check/append section,
\* it is the holder of the lock, and the timestamp queue only changes in a
\* step of a task that found the lock free (nobody else inside).
C7_QueueUnderLock ==
    /\ [](/\ Cardinality({t \in Tasks : InsideSection(t)}) <= 1
          /\ \A t \in Tasks : InsideSection(t) => lock_owner = t)
    /\ [][requests' # requests => \A t \in Tasks : ~InsideSection(t)]_vars

\* one task sleeps inside the section, the limit reached, while another
\* task has called acquire() and is queued on the lock
C7_Witness ==
    \E t, u \in Tasks :
        /\ t # u
        /\ rpc[t] = "sleeping" /\ lock_owner = t
        /\ Len(requests) >= MaxRequests
        /\ rpc[u] = "wait_lock" /\ depth[u] = 0

(* ========================== IPCClient claims =========================== *)
\* a caller's request is on the channel and its call has not ended
GatewayInFlight(g) == gpc[g] \in {"draining", "reading"}

\* C8: with concurrent callers on one handle, at most one request is in
\* flight at a time, and a caller that is handed a reply is handed the
\* reply to its own request.
C8_OneInFlight ==
    /\ Cardinality({g \in Callers : GatewayInFlight(g)}) <= 1
    /\ \A g \in Callers :
          (gpc[g] = "returned" /\ outcome[g] = "returned"
             /\ gresponse[g] # NoResponse) => answers[g] = g

\* C9: a call that returns has made exactly one write and then exactly one
\* read, and no write is issued on a connection while another call is
\* between its write on that connection and the end of its read.
C9_OneWriteOneRead ==
    /\ [](\A g \in Callers :
            (gpc[g] = "returned" /\ outcome[g] = "returned")
               => (writes[g] = 1 /\ reads[g] = 1))
    /\ [][\A g \in Callers :
            writes'[g] > writes[g]
               => \A h \in Callers \ {g} :
                     ~(GatewayInFlight(h) /\ wconn[h] = writer')]_vars

\* C10: request_transaction returns the reply's signature iff the reply is
\* a transaction_response, null otherwise; check_security returns the
\* reply's (is_safe, reason) iff the reply is a security_response, and
\* (false, a non-null reason) for any other or missing reply; it reports
\* safe only for a security_response whose is_safe is true.
C10_ContractResults ==
    \A g \in Callers :
        (gpc[g] = "returned" /\ outcome[g] = "returned") =>
            /\ gkind[g] = "request_transaction" =>
                  IF gresponse[g].type = "transaction_response"
                  THEN ret[g].signature = gresponse[g].data.signature
                  ELSE ret[g].signature = null
            /\ gkind[g] = "check_security" =>
                  /\ IF gresponse[g].type = "security_response"
                     THEN /\ ret[g].is_safe
                                = (gresponse[g].data.is_safe = "true")
                          /\ ret[g].reason = gresponse[g].data.reason
                     ELSE ~ret[g].is_safe /\ ret[g].reason # null
                  /\ ret[g].is_safe =>
                        /\ gresponse[g].type = "security_response"
                        /\ gresponse[g].data.is_safe = "true"

\* a check_security caller was answered by the engine with a
\* security_response and got (false, "blacklisted") from it
C10_Witness ==
    \E g \in Callers :
        /\ gpc[g] = "returned" /\ outcome[g] = "returned"
        /\ gkind[g] = "check_security"
        /\ answers[g] # 0
        /\ gresponse[g].type = "security_response"
        /\ ~ret[g].is_safe /\ ret[g].reason = "blacklisted"

TransportOpen == writer # 0 /\ writer \notin closed

\* C12: a call made while no transport is open (never connected, or closed
\* by close()) connects before it writes; a call made while a transport is
\* open writes on it and opens no connection; no write goes to a transport
\* that close() has closed.
C12_LazyConnect ==
    [][\A g \in Callers :
          /\ (gpc[g] = "idle" /\ gpc'[g] # "idle")
                => IF TransportOpen
                   THEN writes'[g] = 1 /\ nconn' = nconn
                   ELSE gpc'[g] = "connecting" /\ writes'[g] = 0
          /\ writes'[g] > writes[g] => writer' \notin closed]_vars

(* ===================== SnipingService: failures ======================== *)
\* C13: when check_security or request_transaction raises, execute_sniping
\* returns a failure result carrying the error, and the history and the
\* active orders are what they were.
C13_FailureBecomesResult ==
    [][\A c \in Calls :
          (CheckSecurityRaises(c) \/ RequestTransactionRaises(c))
             => /\ spc'[c] = "returned"
                /\ ~result'[c].success
                /\ result'[c].error # null
                /\ result'[c].signature = null
                /\ transactions' = transactions
                /\ active_orders' = active_orders]_vars

\* request_transaction raised in a call made while the history already
\* held a record: the call returned a failure and appended nothing
C13_Witness ==
    \E c \in Calls :
        /\ spc[c] = "returned"
        /\ requested[c]
        /\ result[c].error = "exception"
        /\ appended[c] = 0
        /\ Len(transactions) > 0

C15_CallbackFailureContained ==
    [][\A l \in Loops :
          ObserverRaises(l)
             => /\ is_running' = is_running
                /\ mpc'[l] \in {"record", "sleeping"}
                /\ pools_cache'[cur[l].id] = cur[l]
                /\ Len(price_history'[cur[l].id])
                      >= Len(Fresh(price_history[cur[l].id], now))
                /\ left'[l] = left[l] - 1]_vars

\* C16: a record without pool id or without token address is skipped: the
\* loop goes on to the next record (or to its sleep) and the flag is left
\* alone.
C16_MalformedRecordSkipped ==
    [][\A l \in Loops :
          /\ (mpc[l] = "record"
                 /\ (mpc'[l] # "record" \/ left'[l] # left[l]))
                => /\ mpc'[l] \in {"record", "sleeping", "analyzing"}
                   /\ is_running' = is_running
          /\ (mpc[l] = "analyzing" /\ ~cur[l].has_token
                 /\ mpc'[l] # "analyzing")
                => /\ mpc'[l] \in {"record", "sleeping"}
                   /\ is_running' = is_running
                   /\ left'[l] = left[l] - 1]_vars

\* C17, as stated: callbacks are awaited only for a record the diff found
\* absent from the cache or different in price or liquidity, and every
\* such record gets its callback (tick 1 sees A, tick 2 sees A unchanged
\* and B: one notification, for B).
C17_CallbackPerChange ==
    [][\A l \in Loops :
          /\ (mpc[l] = "record" /\ mpc'[l] = "analyzing")
                => \/ pools_cache[cur'[l].id] = NoRecord
                   \/ pools_cache[cur'[l].id].price # cur'[l].price
                   \/ pools_cache[cur'[l].id].liquidity # cur'[l].liquidity
          /\ (mpc'[l] = "acquiring" /\ mpc[l] # "acquiring")
                => (mpc[l] = "analyzing" /\ cur'[l] = cur[l])
          /\ (mpc[l] = "analyzing" /\ mpc'[l] # "analyzing")
                => mpc'[l] = "acquiring"]_vars

\* C17, amended: callbacks are awaited only for a record the diff found
\* absent from the cache or different in price or liquidity, and for such a
\* record exactly when analyze_pool returned an opportunity for it; a
\* record equal to the cached one is passed over without analysis.
C17_CallbackOnlyOnChange ==
    [][\A l \in Loops :
          /\ (mpc[l] = "record" /\ mpc'[l] = "analyzing")
                => \/ pools_cache[cur'[l].id] = NoRecord
                   \/ pools_cache[cur'[l].id].price # cur'[l].price
                   \/ pools_cache[cur'[l].id].liquidity # cur'[l].liquidity
          /\ (mpc'[l] = "acquiring" /\ mpc[l] # "acquiring")
                => (mpc[l] = "analyzing" /\ cur'[l] = cur[l])
          /\ AnalyzeDone(l, TRUE) => mpc'[l] = "acquiring"
          /\ AnalyzeDone(l, FALSE) => mpc'[l] # "acquiring"]_vars

\* the second tick visited A, cached and unchanged since the first tick
\* (one point in its price history), passed it over, and is now notifying
\* B, which is not in the cache
C17_Witness ==
    \E l \in Loops :
        /\ ticks = 2
        /\ left[l] = 1
        /\ mpc[l] = "acquiring"
        /\ cur[l].id = "B"
        /\ pools_cache["B"] = NoRecord
        /\ pools_cache["A"] # NoRecord
        /\ Len(price_history["A"]) = 1

\* C18: a tick's fetch is awaited only after acquire() was called in that
\* tick.
C18_AcquireBeforeFetch ==
    \A l \in Loops : mpc[l] = "fetching" => acquires[l] > 0

\* C19: once stop() has cleared the flag and start() does not set it again,
\* the loop begins no further tick (a fetch is awaited only with the flag
\* set) and terminates, the tick in progress running to its end.
C19_StopIsCooperative ==
    /\ [][\A l \in Loops :
             (mpc'[l] = "fetching" /\ mpc[l] # "fetching") => is_running']_vars
    /\ \A l \in Loops :
          (~is_running /\ mpc[l] \notin {"idle", "ended"})
             ~> (is_running \/ mpc[l] = "ended")

\* C20: every entry of self.opportunities is less than 24 hours old.
C20_OpportunitiesRecent ==
    \A i \in 1..Len(opportunities) :
        now - opportunities[i].timestamp < Retention

\* C21: every token's price history is ordered by timestamp and holds only
\* points of the trailing 24 hours.
C21_PriceHistoryWindow ==
    \A i \in PoolIds :
        /\ \A j \in 1..Len(price_history[i]) :
              now - price_history[i][j].timestamp <= Retention
        /\ \A j, k \in 1..Len(price_history[i]) :
              j < k => price_history[i][j].timestamp
                          <= price_history[i][k].timestamp

(* ==================== JupiterMonitor: analysis claims ================== *)
\* C22: for all inputs estimate_profit returns a value in [0, 3].
C22_ProfitWithinBounds ==
    a_out.op = "estimate_profit"
       => /\ ~a_out.raised
          /\ 0 <= a_out.num
          /\ a_out.num <= 3 * a_out.den

\* C23: analyze_pool returns an opportunity iff liquidity >= min_liquidity_usd,
\* volume_24h >= min_volume_24h, the quoted price impact <= max_price_impact
\* and the estimated profit > min_profit_threshold (stated for pool records
\* that carry token_address and the two mints).
C23_OpportunityIffThresholds ==
    (a_out.op = "analyze_pool" /\ a_in.has_token /\ a_in.has_mints)
       => (a_out.opportunity
             <=> /\ a_in.liquidity >= a_in.min_liquidity_usd
                 /\ a_in.volume_24h >= a_in.min_volume_24h
                 /\ a_in.quote = "impact"
                 /\ a_in.price_impact <= max_price_impact
                 /\ LET profit == estimate_profit(a_in.price_impact,
                                                  a_in.volume_24h,
                                                  a_in.liquidity) IN
                    profit.num * min_profit_threshold.den
                       > min_profit_threshold.num * profit.den)

\* C24: the risk score is the sum of the point table (+2 above 1%, +1 above
\* 0.5% price impact; +2 below twice, +1 below five times the minimum, for
\* liquidity and for volume), it lies in 0..6, and the level is HIGH from 4
\* points, MEDIUM from 2, LOW below.
C24_RiskLevelIsPointTable ==
    a_out.op = "calculate_risk_level"
       => LET impact == IF a_in.price_impact > 10 THEN 2
                        ELSE IF a_in.price_impact > 5 THEN 1 ELSE 0
              depth_pts == IF a_in.liquidity < 2 * a_in.min_liquidity_usd THEN 2
                           ELSE IF a_in.liquidity < 5 * a_in.min_liquidity_usd
                           THEN 1 ELSE 0
              volume_pts == IF a_in.volume_24h < 2 * a_in.min_volume_24h THEN 2
                            ELSE IF a_in.volume_24h < 5 * a_in.min_volume_24h
                            THEN 1 ELSE 0
          IN  /\ a_out.score = impact + depth_pts + volume_pts
              /\ a_out.score \in 0..6
              /\ a_out.level = CASE a_out.score >= 4 -> "HIGH"
                                 [] a_out.score \in {2, 3} -> "MEDIUM"
                                 [] OTHER -> "LOW"

\* a price impact between 0.5% and 1% with liquidity and volume at five
\* times their minimum: one point, LOW
C24_Witness ==
    /\ a_out.op = "calculate_risk_level"
    /\ a_in.price_impact = 10
    /\ a_in.liquidity = 5 * a_in.min_liquidity_usd
    /\ a_in.volume_24h = 5 * a_in.min_volume_24h
    /\ a_out.score = 1
    /\ a_out.level = "LOW"

\* the case of the example: price impact 1.5%, liquidity and volume at 1.5
\* times their minimum
C25_Example ==
    /\ a_out.op = "calculate_risk_level"
    /\ a_in.price_impact = 15
    /\ 2 * a_in.liquidity = 3 * a_in.min_liquidity_usd
    /\ 2 * a_in.volume_24h = 3 * a_in.min_volume_24h

\* C25, as stated: in the example the score is 4 and the level HIGH.
C25_ExampleScoreFour ==
    C25_Example => (a_out.score = 4 /\ a_out.level = "HIGH")

\* C25, amended: in the example the score is 6 (two points on each of the
\* three lines of the table) and the level HIGH.
C25_ExampleScoreSix ==
    C25_Example => (a_out.score = 6 /\ a_out.level = "HIGH")

C25_Witness ==
    C25_Example /\ a_out.level = "HIGH"

(* ====================== SnipingRuleEngine claims ======================= *)
\* C26: evaluate_opportunity returns the first strategy, in insertion
\* order, that is enabled and matches, and none when no enabled strategy
\* matches.
C26_FirstEnabledMatchWins ==
    e_out.op = "evaluate_opportunity"
       => LET hits == {i \in 1..Len(strategies) :
                          /\ strategies[i].enabled
                          /\ Matches(strategies[i], e_out.opp)}
          IN  IF hits = {}
              THEN e_out.kind = "none"
              ELSE /\ e_out.kind = "strategy"
                   /\ e_out.index \in hits
                   /\ \A i \in hits : e_out.index <= i

\* C27: a strategy matches iff the opportunity's estimated_profit reaches
\* its min_profit and every rule is satisfied; stated for the first enabled
\* strategy of the engine, the one evaluate_opportunity evaluates first.
C27_MatchIffProfitAndRules ==
    e_out.op = "evaluate_opportunity"
       => \A i \in 1..Len(strategies) :
             (/\ strategies[i].enabled
              /\ \A j \in 1..(i - 1) : ~strategies[j].enabled)
                => ((e_out.kind = "strategy" /\ e_out.index = i)
                       <=> Matches(strategies[i], e_out.opp))

\* C28: evaluate_opportunity never raises, and a strategy with a rule whose
\* metric is no field of the opportunity or whose operator is none of the
\* six is never the one returned.
C28_UnknownIsNonMatch ==
    e_out.op = "evaluate_opportunity"
       => /\ e_out.kind # "raised"
          /\ e_out.kind = "strategy"
                => \A k \in 1..Len(strategies[e_out.index].rules) :
                      LET rule == strategies[e_out.index].rules[k] IN
                      /\ rule.metric \in NumericFields \cup TextFields
                      /\ rule.operator \in RuleOperators

\* C29: no two strategies held by the engine share a name.
C29_NamesUnique ==
    \A i, j \in 1..Len(strategies) :
        i # j => strategies[i].name # strategies[j].name

\* C30: once update_strategy(data) has returned success for data with a
\* non-empty rule list, get_strategies returns a list holding a value
\* object equal to data, and evaluate_opportunity does not raise.
C30_StrategyRoundTrip ==
    (e_out.data # NoData /\ e_out.data.rules # <<>>)
       => /\ e_out.op = "get_strategies"
                => /\ e_out.kind = "list"
                   /\ \E i \in 1..Len(e_out.list) : e_out.list[i] = e_out.data
          /\ e_out.op = "evaluate_opportunity" => e_out.kind # "raised"

(* =================== SnipingService: signed dispatches ================= *)
\* C33: whenever request_transaction returned a signature to a call of
\* execute_sniping, the call returns success with that signature and a
\* pending record carrying it is in the history and in active_orders; the
\* call never reports a failure for a dispatched and signed transaction.
C33_SignedIsRecorded ==
    [][\A c \in Calls, response \in SendResults,
          estimated_profit \in EstimatedProfits :
          (/\ RequestTransactionReturns(c, response, estimated_profit)
           /\ request_transaction_result(response) # null)
          => /\ result'[c].success
             /\ result'[c].signature = request_transaction_result(response)
             /\ \E i \in 1..Len(transactions') :
                   /\ transactions'[i].signature =
                         request_transaction_result(response)
                   /\ transactions'[i].status = "pending"
                   /\ IsActive(i)']_vars

\* C34: in every reachable state, active_orders is exactly the set of the
\* history's records whose status is pending.
C34_ActiveIsPending ==
    \A i \in 1..Len(transactions) :
        IsActive(i) <=> transactions[i].status = "pending"

(* ============== SnipingRuleEngine: persistence, cache ================== *)
\* C31: save_strategies followed by load_strategies on the same file gives
\* back the ordered collection the engine held: the save writes the file and
\* the load that follows it leaves `strategies` equal to what was saved.
C31_SaveLoadRoundTrip ==
    [][/\ SaveStrategies => e_out'.kind = "saved"
       /\ ((LoadSaved \/ LoadMissing) /\ e_out.op = "save_strategies")
             => (e_out'.kind # "raised" /\ strategies' = strategies)]_vars

\* C32: _get_cache(key) returns the value last set for the key iff less
\* than the TTL has elapsed since that set; otherwise it returns None and
\* the key holds no entry after the read.
C32_CacheHitIffFresh ==
    [][\A key \in CacheKeys :
          _get_cache(key) =>
             LET hit == /\ last_set[key].present
                        /\ ctime - last_set[key].timestamp < _cache_ttl
             IN  /\ c_out'.data = (IF hit THEN last_set[key].data ELSE null)
                 /\ ~hit => ~cache'[key].present]_vars

\* a key whose expired entry a read deleted was set again and read as a hit
C32_Witness ==
    /\ c_out.op = "get"
    /\ c_out.key \in evicted
    /\ c_out.data # null
    /\ cache[c_out.key].timestamp >= _cache_ttl

(* ==================== IPCClient: successive calls ====================== *)
\* C35: of two successive calls on the same handle, each obtains its own
\* reply: when one call has returned with the reply to its request, another
\* call whose request was written on the handle and that has ended has
\* returned with the reply to its own request too.
C35_SuccessiveCallsAnswered ==
    \A g, h \in Callers :
        (/\ g # h
         /\ gpc[g] = "returned" /\ answers[g] = g
         /\ gpc[h] = "returned" /\ writes[h] > 0)
        => answers[h] = h

(* ================== JupiterMonitor: start and stop ===================== *)
\* C36: at most one polling loop is active per monitor, whatever the
\* interleaving of start() and stop(): no two loops are inside a tick (past
\* the while test, before the sleep) at the same time.
C36_AtMostOneLoop ==
    Cardinality({l \in Starters :
                    mpc[l] \notin {"idle", "ended", "sleeping"}}) <= 1

\* C38: when the fetch of the pool list raises inside monitor_new_pools,
\* the loop ends, is_running becomes false and exactly one error is logged.
C38_FetchRaiseEndsLoop ==
    [][\A l \in Loops :
          FetchRaises(l) => /\ mpc'[l] = "ended"
                            /\ ~is_running'
                            /\ errors' = errors + 1]_vars

\* a loop started on a clean monitor has ended on a raising fetch, with the
\* flag cleared and the one error logged
C38_Witness ==
    \E l \in Loops :
        /\ last_fetch[l] = "raised"
        /\ mpc[l] = "ended"
        /\ ~is_running
        /\ errors = 1

\* C39: pools_cache holds a fetched pool only if its liquidity is at least
\* min_liquidity_usd.
C39_CacheOnlyLiquidPools ==
    \A i \in PoolIds :
        pools_cache[i] # NoRecord => pools_cache[i].liquidity >= min_liquidity_usd

\* C37: a running monitor whose callback is _handle_opportunity keeps
\* ticking: every tick that has begun eventually finishes (the loop reaches
\* its sleep or ends), the callback's acquire() never holding it for ever.
C37_TickFinishes ==
    \A l \in Loops :
        (mpc[l] \in {"fetching", "record", "analyzing", "acquiring",
                     "observer"})
           ~> (mpc[l] \in {"sleeping", "ended"})

(* ================= SnipingService: update_strategy ===================== *)
\* C40: update_strategy with the name of a strategy the engine holds
\* replaces it: afterwards exactly one strategy has that name, it is the
\* last of the list, and the strategies of other names are ahead of it in
\* the relative order they had.
C40_UpdateReplacesAndMovesLast ==
    [][\A data \in StrategyData :
          (/\ UpdateStrategy(data)
           /\ \E i \in 1..Len(strategies) : strategies[i].name = data.name)
          => LET others == SelectSeq(strategies,
                                     LAMBDA t : t.name # data.name)
                 n == Len(strategies')
             IN  /\ n = Len(others) + 1
                 /\ SubSeq(strategies', 1, n - 1) = others
                 /\ strategies'[n].name = data.name
                 /\ strategies'[n].enabled = data.enabled
                 /\ strategies'[n].min_profit = data.min_profit
                 /\ strategies'[n].rules = data.rules
                 /\ Cardinality({i \in 1..n :
                                   strategies'[i].name = data.name}) = 1]_vars

\* the default strategy, first in the engine, was updated while another
\* strategy was held: it is now the last one, behind that other strategy
C40_Witness ==
    /\ e_out.op = "update_strategy"
    /\ e_out.kind = "success"
    /\ e_out.data.name = "Default Strategy"
    /\ Len(strategies) = 2
    /\ strategies[1].name = "Custom"
    /\ strategies[2].name = "Default Strategy"
    /\ strategies[2] # DefaultStrategy

============================================================================
